---- MODULE Spec2Model ----
(***************************************************************************)
(* Verification model of the cointracker fetch / normalize / merge         *)
(* pipeline (package providers and package models).                        *)
(*                                                                         *)
(* The repository holds several generations of the same components:       *)
(*   - ParallelFetcher           src/unnamed/part_003 (tracks              *)
(*     NormalizationStats, reports partial failures) and                   *)
(*     src/unnamed/part_004 (no stats, partial failures return nil error)  *)
(*   - TransactionFetcher        src/pkg/providers/fetcher.go, a           *)
(*     sequential (lines 31-84) and a goroutine based (213-294) variant    *)
(*   - ParallelNormalizer        src/unnamed/part_006 (typed worker pool   *)
(*     with statistics) and src/pkg/providers/parallel_normalizer.go       *)
(* The variable prog selects the entry point a run executes, the variable  *)
(* impl the generation of the component.  The merge/sort stage             *)
(* (models.TransactionList under sort.Sort) is also run on its own.        *)
(***************************************************************************)
EXTENDS Integers, Sequences, FiniteSets, TLC

VARIABLES
    prog,            \* entry point this run executes
    impl,            \* generation of the component (see above)
    maxConcurrent,   \* ParallelFetcher.maxConcurrent
    parentDone,      \* the caller's ctx has been cancelled
    sem,             \* number of slots held in the semaphore channel
    semClosed,       \* close(sem) has run (deferred in FetchAllTransactionsParallel)
    fpc,             \* per type: position of the fetchWithSemaphore goroutine
    abandoned,       \* provider calls still running after their executeFetch returned
    fetchStats,      \* collector: Count of each type that delivered transactions
    collected,       \* history, per type: results the collector has taken from resultChan
    provided,        \* history, per type: what the provider call returned (Nil: nothing yet)
    timeout,         \* ParallelFetcher.timeout, in milliseconds
    resultChan,      \* the buffered result channel
    resultClosed,    \* close(resultChan) has run
    wg,              \* sync.WaitGroup counter
    allTransactions, \* collector: transactions appended so far
    errors,          \* collector: the errors appended so far, as [TxType, Err]
    mpc,             \* position of the entry point's own goroutine
    ret,             \* what the entry point returned (Nil while running)
    workerCount,     \* ParallelNormalizer.workerCount
    bufferSize,      \* ParallelNormalizer.bufferSize
    items,           \* per category: the raw records handed to the normalizer
    filled,          \* per category: records the queue filler has pushed so far
    workQueue,       \* per category: the pool's work queue
    wqClosed,        \* per category: close(workQueue) has run
    fillerExited,    \* per category: the queue filler goroutine has returned
    wpc,             \* per category and worker: position of the worker goroutine
    witem,           \* per category and worker: the record the worker holds
    mutex,           \* per category: the worker holding statsMutex (0: free)
    stats,           \* per category: the pool's NormalizationStats
    ppc,             \* per category: position of the pool's own goroutine
    statsChan,       \* the buffered stats channel
    statsClosed,     \* close(statsChan) has run
    aggregateStats,  \* collector: the merged statistics
    rcNil,           \* collector: it has set its resultChan to nil
    scNil,           \* collector: it has set its statsChan to nil
    taken,           \* history, per category: the Hash of every record dequeued
    rawTx,           \* the raw record handed to EtherscanNormalizer.Normalize*Tx
    streamChan,      \* the channel StreamNormalizeResults of part_006 returned
    closes,          \* how often the returned channel has been closed
    spc,             \* position of the goroutine of StreamNormalizeResults
    sent,            \* part_006: the transactions of the result streamed so far
    received,        \* the transactions the consumer of the stream has received
    now,             \* the clock (milliseconds since the client was made)
    lastReq,         \* EtherscanClient.lastReq
    cpc,             \* per caller: position inside executeRequest
    cwake,           \* per caller: when the timer of time.After fires
    sentAt,          \* history: the times at which a request went out
    cres,            \* per caller: what its last executeRequest returned
    attempts,        \* per caller: requests sent by its current executeRequest
    calls,           \* per caller: executeRequest calls made so far
    batchSize,       \* StreamingCSVWriter.batchSize
    pending,         \* the transactions the producer has yet to send on txChan
    txChan,          \* the input channel of WriteStream (unbuffered: at most one)
    txClosed,        \* close(txChan) has run
    batch,           \* WriteStream: the batch collected so far
    file,            \* the rows flushed to the underlying io.Writer
    got,             \* history: the transactions WriteStream received from txChan
    atCancel         \* history: len(result) of the collector when ctx was cancelled

vars == <<prog, impl, maxConcurrent, parentDone, sem, semClosed, fpc,
          abandoned, fetchStats, collected, provided, timeout, resultChan,
          resultClosed,
          wg, allTransactions, errors, mpc, ret, workerCount, bufferSize, items,
          filled, workQueue, wqClosed, fillerExited, wpc, witem, mutex, stats,
          ppc, statsChan, statsClosed, aggregateStats, rcNil, scNil, taken, rawTx,
          streamChan, closes, spc, sent, received,
          now, lastReq, cpc, cwake, sentAt, cres, attempts, calls,
          batchSize, pending, txChan, txClosed, batch, file, got, atCancel>>

\* the variables of the normalizer pools, and those of the fetchers
clientVars == <<now, lastReq, cpc, cwake, sentAt, cres, attempts, calls>>
writerVars == <<batchSize, pending, txChan, txClosed, batch, file, got>>
poolOwn == <<workerCount, bufferSize, items, filled, workQueue, wqClosed,
             fillerExited, wpc, witem, mutex, stats, ppc, statsChan,
             statsClosed, aggregateStats, rcNil, scNil, taken, rawTx,
             streamChan, closes, spc, sent, received, atCancel>>
normVars == <<poolOwn, clientVars, writerVars>>
streamVars == <<streamChan, closes, spc, sent, received>>
fetchVars == <<maxConcurrent, sem, semClosed, fpc, abandoned, fetchStats,
           collected, provided, timeout, errors>>

\* the run is one of the normalizer pools: NormalizeTransactionsParallel
\* itself, or the goroutine of StreamNormalizeResults
InPools == prog \in {"norm", "stream"}

\* the run has the collector loop of NormalizeTransactionsParallel: the
\* StreamNormalizeResults of parallel_normalizer.go starts the pools itself
\* and has none
Collecting == prog = "norm" \/ (prog = "stream" /\ impl = "typed")

\* a nil pointer / an empty channel slot, and a nil error
Nil == [nil |-> TRUE]
NoErr == "nil"

(***************************************************************************)
(* Data model                                                              *)
(***************************************************************************)
NumTypes == 5
TxTypeNormal == 0
TxTypeInternal == 1
TxTypeToken == 2
TxTypeNFT == 3
TxTypeERC1155 == 4
TxTypes == TxTypeNormal..TxTypeERC1155

\* fault injection: the ERC-721 normalizer tags its transactions as ERC-20
ModelTypeMistagged(t) ==
    CASE t = TxTypeNormal   -> "ETH"
      [] t = TxTypeInternal -> "Internal"
      [] t = TxTypeToken    -> "ERC-20"
      [] t = TxTypeNFT      -> "ERC-20"
      [] OTHER              -> "ERC-1155"

\* models.TransactionType written by the normalizer of each category
ModelType(t) ==
    CASE t = TxTypeNormal   -> "ETH"
      [] t = TxTypeInternal -> "Internal"
      [] t = TxTypeToken    -> "ERC-20"
      [] t = TxTypeNFT      -> "ERC-721"
      [] OTHER              -> "ERC-1155"

\* fault injection: a Less that forgets the block number
LessByTimestamp(a, b) == a.Timestamp < b.Timestamp

\* TransactionList.Less: block number first, then timestamp
Less(a, b) ==
    IF a.BlockNumber # b.BlockNumber
    THEN a.BlockNumber < b.BlockNumber
    ELSE a.Timestamp < b.Timestamp

\* x placed after the first k elements of r
InsertAt(r, x, k) == SubSeq(r, 1, k) \o <<x>> \o SubSeq(r, k + 1, Len(r))

\* sort.Sort(models.TransactionList(s)): the library sorts by Less and does
\* not promise stability, so every arrangement ordered by Less is an outcome.
RECURSIVE SortOutcomes(_)
SortOutcomes(s) ==
    IF s = <<>> THEN {<<>>}
    ELSE LET x == s[Len(s)]
             rest == SortOutcomes(SubSeq(s, 1, Len(s) - 1))
         IN UNION {{InsertAt(r, x, k) :
                       k \in {j \in 0..Len(r) :
                                /\ (j = 0 \/ ~Less(x, r[j]))
                                /\ (j = Len(r) \/ ~Less(r[j + 1], x))}} :
                   r \in rest}

(***************************************************************************)
(* Normalizer and provider as the pipeline sees them                       *)
(***************************************************************************)
\* A raw record; norm is what the Normalizer answers for it:
\* "ok" (transaction, nil), "err" (nil, error) or "nil" (nil, nil).
RawRecord(h, b, ts, n) == [Hash |-> h, BlockNumber |-> b, TimeStamp |-> ts, norm |-> n]

\* Normalizer.Normalize*Tx for category t: the transaction, or Nil
NormalizeTx(t, raw) ==
    IF raw.norm = "ok"
    THEN [Hash |-> raw.Hash, Type |-> ModelType(t),
          BlockNumber |-> raw.BlockNumber, Timestamp |-> raw.TimeStamp]
    ELSE Nil

NormalizeErr(raw) == raw.norm = "err"

ZeroStats == [TotalProcessed |-> 0, SuccessCount |-> 0, ErrorCount |-> 0, Errors |-> <<>>]

\* the normalizer pools' variables while a fetcher runs
StreamIdle ==
    /\ atCancel = 0
    /\ streamChan = <<>>
    /\ closes = 0
    /\ spc = "idle"
    /\ sent = 0
    /\ received = <<>>

\* no EtherscanClient in the run
ClientIdle ==
    /\ now = 0
    /\ lastReq = 0
    /\ cpc = <<>>
    /\ cwake = <<>>
    /\ sentAt = <<>>
    /\ cres = <<>>
    /\ attempts = <<>>
    /\ calls = <<>>

\* no StreamingCSVWriter in the run
WriterIdle ==
    /\ batchSize = 0
    /\ pending = <<>>
    /\ txChan = <<>>
    /\ txClosed = FALSE
    /\ batch = <<>>
    /\ file = <<>>
    /\ got = <<>>

\* no normalizer pool in the run
PoolsIdle ==
    /\ workerCount = 0
    /\ bufferSize = 0
    /\ items = [c \in TxTypes |-> <<>>]
    /\ filled = [c \in TxTypes |-> 0]
    /\ workQueue = [c \in TxTypes |-> <<>>]
    /\ wqClosed = [c \in TxTypes |-> FALSE]
    /\ fillerExited = [c \in TxTypes |-> FALSE]
    /\ wpc = <<>>
    /\ witem = <<>>
    /\ mutex = [c \in TxTypes |-> 0]
    /\ stats = [c \in TxTypes |-> ZeroStats]
    /\ ppc = [c \in TxTypes |-> "none"]
    /\ statsChan = <<>>
    /\ statsClosed = FALSE
    /\ aggregateStats = ZeroStats
    /\ rcNil = FALSE
    /\ scNil = FALSE
    /\ taken = [c \in TxTypes |-> <<>>]

\* the variables of the other components while a fetcher runs
NormIdle ==
    /\ StreamIdle
    /\ ClientIdle
    /\ WriterIdle
    /\ PoolsIdle

(***************************************************************************)
(* ParallelFetcher: the per-category fetch helpers                         *)
(***************************************************************************)
\* One iteration of the helper's loop in part_003: count, then classify.
CountRecord(acc, t, raw) ==
    LET st == [acc.stats EXCEPT !.TotalProcessed = @ + 1] IN
    IF NormalizeErr(raw)
    THEN [normalized |-> acc.normalized,
          stats |-> [st EXCEPT !.ErrorCount = @ + 1, !.Errors = Append(@, raw.Hash)]]
    ELSE IF NormalizeTx(t, raw) # Nil
    THEN [normalized |-> Append(acc.normalized, NormalizeTx(t, raw)),
          stats |-> [st EXCEPT !.SuccessCount = @ + 1]]
    ELSE [normalized |-> acc.normalized, stats |-> st]

\* One iteration of the helper's loop in part_004: keep what has no error.
KeepRecord(acc, t, raw) ==
    IF ~NormalizeErr(raw)
    THEN [acc EXCEPT !.normalized = Append(@, NormalizeTx(t, raw))]
    ELSE acc

RECURSIVE NormalizeLoop(_, _, _)
NormalizeLoop(t, raws, acc) ==
    IF raws = <<>> THEN acc
    ELSE NormalizeLoop(t, Tail(raws),
                       IF impl = "stats" THEN CountRecord(acc, t, Head(raws))
                                         ELSE KeepRecord(acc, t, Head(raws)))

\* fault injection: a failed provider call still reports a transaction
FetchConcurrentBoth(t, resp) ==
    IF resp.err
    THEN [TxType |-> t, Txs |-> <<NormalizeTx(t, RawRecord(t, 1, 1, "ok"))>>, Err |-> "provider",
          Count |-> 1, NormalizationStats |-> ZeroStats]
    ELSE LET acc == NormalizeLoop(t, resp.raws, [normalized |-> <<>>, stats |-> ZeroStats])
         IN [TxType |-> t, Txs |-> acc.normalized, Err |-> NoErr,
             Count |-> Len(acc.normalized), NormalizationStats |-> acc.stats]

\* fetch<Type>TransactionsConcurrent: resp is what the provider returned
FetchConcurrent(t, resp) ==
    IF resp.err
    THEN [TxType |-> t, Txs |-> <<>>, Err |-> "provider", Count |-> 0,
          NormalizationStats |-> ZeroStats]
    ELSE LET acc == NormalizeLoop(t, resp.raws, [normalized |-> <<>>, stats |-> ZeroStats])
         IN [TxType |-> t, Txs |-> acc.normalized, Err |-> NoErr,
             Count |-> Len(acc.normalized), NormalizationStats |-> acc.stats]

\* fault injection: the timeout branch reports an empty success
TimeoutAsEmpty(t) ==
    [TxType |-> t, Txs |-> <<>>, Err |-> NoErr, Count |-> 0,
     NormalizationStats |-> ZeroStats]

\* the result executeFetch builds when ctx.Done() wins the select
TimeoutResult(t) ==
    [TxType |-> t, Txs |-> <<>>, Err |-> "timeout", Count |-> 0,
     NormalizationStats |-> ZeroStats]

(***************************************************************************)
(* Provider behaviours explored for the fetch pipelines                    *)
(***************************************************************************)
BlockOf(t) == CASE t = TxTypeNormal -> 1 [] t = TxTypeInternal -> 2
                [] t = TxTypeToken -> 1 [] t = TxTypeNFT -> 1 [] OTHER -> 2
StampOf(t) == CASE t = TxTypeNormal -> 2 [] t = TxTypeInternal -> 1
                [] t = TxTypeToken -> 2 [] t = TxTypeNFT -> 1 [] OTHER -> 2

GoodRaw(t) == RawRecord(t, BlockOf(t), StampOf(t), "ok")

ProviderResponses(t) ==
    {[err |-> TRUE, raws |-> <<>>],
     [err |-> FALSE, raws |-> <<>>],
     [err |-> FALSE, raws |-> <<GoodRaw(t)>>]}

(***************************************************************************)
(* ParallelFetcher.FetchAllTransactionsParallel                            *)
(***************************************************************************)
\* The collector's loop body reads the head of resultChan and writes only the
\* collector's locals, the fetch goroutines only append to its tail: the two
\* commute.  The fetch goroutines therefore take their next step once the
\* collector has drained what was sent (results are collected in send order
\* in every schedule).
Drained == resultChan = <<>>

\* make(chan *FetchTypeResult, 5)
ResultChanCap == 5

\* the deferred cancel() of fetchCtx has run once the goroutine is done
FetchCtxDone(t) == parentDone \/ fpc[t] = "done"

\* the ctx the provider call of type t received: fetchCtx in part_003,
\* the caller's ctx in part_004
ProviderCtxDone(t) == IF impl = "stats" THEN FetchCtxDone(t) ELSE parentDone

\* timeout: 30 * time.Second, in milliseconds
DefaultTimeout == 30000

InitFetcher(i) ==
    /\ prog = "pf"
    /\ impl = i
    /\ maxConcurrent = 3
    /\ parentDone = FALSE
    /\ sem = 0
    /\ semClosed = FALSE
    /\ fpc = [t \in TxTypes |-> "idle"]
    /\ abandoned = 0
    /\ fetchStats = [t \in TxTypes |-> 0]
    /\ collected = [t \in TxTypes |-> 0]
    /\ provided = [t \in TxTypes |-> Nil]
    /\ timeout = DefaultTimeout
    /\ resultChan = <<>>
    /\ resultClosed = FALSE
    /\ wg = 0
    /\ allTransactions = <<>>
    /\ errors = {}
    /\ mpc = "config"
    /\ ret = Nil
    /\ NormIdle
    /\ rawTx = Nil

SetMaxConcurrent(max) ==
    /\ prog \in {"pf", "config"} /\ mpc = "config"
    /\ UNCHANGED normVars
    /\ maxConcurrent' = IF max > 0 /\ max <= 10 THEN max ELSE maxConcurrent
    /\ UNCHANGED <<prog, impl, parentDone, sem, semClosed, fpc, abandoned,
                   fetchStats, collected, timeout, provided, resultChan, resultClosed, wg,
                   allTransactions, errors, mpc, ret>>

\* the caller cancels ctx
CancelCtx ==
    /\ prog = "pf" /\ mpc \in {"config", "collect"} /\ ~parentDone
    /\ UNCHANGED normVars
    /\ parentDone' = TRUE
    /\ UNCHANGED <<prog, impl, maxConcurrent, sem, semClosed, fpc, abandoned,
                   fetchStats, collected, timeout, provided, resultChan, resultClosed, wg,
                   allTransactions, errors, mpc, ret>>

\* wg.Add(5) and the five go statements
StartFetch ==
    /\ prog = "pf" /\ mpc = "config"
    /\ UNCHANGED normVars
    /\ wg' = NumTypes
    /\ fpc' = [t \in TxTypes |-> "wait"]
    /\ mpc' = "collect"
    /\ UNCHANGED <<prog, impl, maxConcurrent, parentDone, sem, semClosed, abandoned,
                   fetchStats, collected, timeout, provided, resultChan, resultClosed, allTransactions, errors, ret>>

\* sem <- struct{}{}; context.WithTimeout; executeFetch starts the provider call
Acquire(t) ==
    /\ prog = "pf" /\ fpc[t] = "wait" /\ Drained
    /\ UNCHANGED normVars
    /\ sem < maxConcurrent
    /\ sem' = sem + 1
    /\ fpc' = [fpc EXCEPT ![t] = "run"]
    /\ UNCHANGED <<prog, impl, maxConcurrent, parentDone, semClosed, abandoned,
                   fetchStats, collected, timeout, provided, resultChan, resultClosed, wg,
                   allTransactions, errors, mpc, ret>>

\* fault injection: fetchWithSemaphore without its deferred <-sem
SendResultNoRelease(t, r) ==
    /\ Len(resultChan) < ResultChanCap
    /\ resultChan' = Append(resultChan, r)
    /\ sem' = sem
    /\ wg' = wg - 1
    /\ fpc' = [fpc EXCEPT ![t] = "done"]

\* resultChan <- r, then the deferred calls of fetchWithSemaphore:
\* cancel(), <-sem, wg.Done()
SendResult(t, r) ==
    /\ Len(resultChan) < ResultChanCap
    /\ resultChan' = Append(resultChan, r)
    /\ sem' = sem - 1
    /\ wg' = wg - 1
    /\ fpc' = [fpc EXCEPT ![t] = "done"]

\* The provider call returns, the helper normalizes, and executeFetch's
\* select takes case result := <-resultChan.
SelectResult(t) ==
    /\ prog = "pf" /\ fpc[t] = "run" /\ Drained
    /\ UNCHANGED normVars
    /\ \E resp \in ProviderResponses(t) :
          /\ SendResult(t, FetchConcurrent(t, resp))
          /\ provided' = [provided EXCEPT ![t] = resp]
    /\ UNCHANGED <<prog, impl, maxConcurrent, parentDone, semClosed, abandoned,
                   fetchStats, collected, timeout, resultClosed, allTransactions, errors, mpc, ret>>

\* executeFetch's select takes case <-ctx.Done(): the caller's ctx is
\* cancelled, or the timer of context.WithTimeout(ctx, pf.timeout) fires.
\* stillRunning: the provider call has not returned by then (otherwise its
\* result is ready too and the select chose ctx.Done()).
SelectTimeout(t, stillRunning) ==
    /\ prog = "pf" /\ fpc[t] = "run" /\ Drained
    /\ UNCHANGED normVars
    /\ SendResult(t, TimeoutResult(t))
    /\ abandoned' = IF stillRunning THEN abandoned + 1 ELSE abandoned
    /\ UNCHANGED <<prog, impl, maxConcurrent, parentDone, semClosed,
                   fetchStats, collected, timeout, provided, resultClosed, allTransactions, errors, mpc, ret>>

\* a provider call that executeFetch no longer waits for returns; its
\* result stays in executeFetch's buffered channel, which nobody reads
LateProviderReturn ==
    /\ prog = "pf" /\ abandoned > 0
    /\ UNCHANGED normVars
    /\ abandoned' = abandoned - 1
    /\ UNCHANGED <<prog, impl, maxConcurrent, parentDone, sem, semClosed, fpc,
                   fetchStats, collected, timeout, provided, resultChan, resultClosed, wg,
                   allTransactions, errors, mpc, ret>>

\* go func() { wg.Wait(); close(resultChan) }()
CloseResultChan ==
    /\ prog = "pf" /\ mpc = "collect" /\ wg = 0 /\ ~resultClosed
    /\ UNCHANGED normVars
    /\ resultClosed' = TRUE
    /\ UNCHANGED <<prog, impl, maxConcurrent, parentDone, sem, semClosed, fpc,
                   abandoned, fetchStats, collected, timeout, provided, resultChan, wg,
                   allTransactions, errors, mpc, ret>>

\* fault injection: the collector keeps the last category's transactions
\* instead of appending them
CollectLast ==
    /\ prog = "pf" /\ mpc = "collect" /\ resultChan # <<>>
    /\ UNCHANGED normVars
    /\ LET result == Head(resultChan) IN
          IF result.Err # NoErr
          THEN /\ errors' = errors \cup {[TxType |-> result.TxType, Err |-> result.Err]}
               /\ UNCHANGED <<allTransactions, fetchStats>>
          ELSE IF result.Txs # <<>>
          THEN /\ allTransactions' = result.Txs
               /\ fetchStats' = [fetchStats EXCEPT ![result.TxType] = result.Count]
               /\ UNCHANGED errors
          ELSE UNCHANGED <<allTransactions, fetchStats, errors>>
    /\ collected' = [collected EXCEPT ![Head(resultChan).TxType] = @ + 1]
    /\ resultChan' = Tail(resultChan)
    /\ UNCHANGED <<provided, timeout>>
    /\ UNCHANGED <<prog, impl, maxConcurrent, parentDone, sem, semClosed, fpc,
                   abandoned, resultClosed, wg, mpc, ret>>

\* one iteration of for result := range resultChan
Collect ==
    /\ prog = "pf" /\ mpc = "collect" /\ resultChan # <<>>
    /\ UNCHANGED normVars
    /\ LET result == Head(resultChan) IN
          IF result.Err # NoErr
          THEN /\ errors' = errors \cup {[TxType |-> result.TxType, Err |-> result.Err]}
               /\ UNCHANGED <<allTransactions, fetchStats>>
          ELSE IF result.Txs # <<>>
          THEN /\ allTransactions' = allTransactions \o result.Txs
               /\ fetchStats' = [fetchStats EXCEPT ![result.TxType] = result.Count]
               /\ UNCHANGED errors
          ELSE UNCHANGED <<allTransactions, fetchStats, errors>>
    /\ collected' = [collected EXCEPT ![Head(resultChan).TxType] = @ + 1]
    /\ resultChan' = Tail(resultChan)
    /\ UNCHANGED <<provided, timeout>>
    /\ UNCHANGED <<prog, impl, maxConcurrent, parentDone, sem, semClosed, fpc,
                   abandoned, resultClosed, wg, mpc, ret>>

\* fault injection: the return without the len(errors) checks
FetchReturnNoCheck(sorted, errs) == [txs |-> sorted, err |-> NoErr]

\* what FetchAllTransactionsParallel returns once the range loop has ended,
\* sorted being the outcome of sort.Sort on the collected transactions
FetchReturn(sorted, errs) ==
    IF Cardinality(errs) = NumTypes THEN [txs |-> <<>>, err |-> "all"]
    ELSE IF impl = "stats" /\ Cardinality(errs) > 0 THEN [txs |-> sorted, err |-> "partial"]
    ELSE [txs |-> sorted, err |-> NoErr]

ReturnFetch ==
    /\ prog = "pf" /\ mpc = "collect" /\ resultChan = <<>> /\ resultClosed
    /\ UNCHANGED normVars
    /\ \E sorted \in SortOutcomes(allTransactions) :
          ret' = FetchReturn(sorted, errors)
    /\ semClosed' = TRUE
    /\ mpc' = "returned"
    /\ UNCHANGED <<prog, impl, maxConcurrent, parentDone, sem, fpc, abandoned,
                   fetchStats, collected, timeout, provided, resultChan, resultClosed, wg,
                   allTransactions, errors>>

MaxConcurrentArg == 1

NextPF ==
    \/ \E max \in (0..MaxConcurrentArg) \cup {11} : SetMaxConcurrent(max)
    \/ CancelCtx
    \/ StartFetch
    \/ \E t \in TxTypes : Acquire(t)
    \/ \E t \in TxTypes : SelectResult(t)
    \/ \E t \in TxTypes, stillRunning \in BOOLEAN : SelectTimeout(t, stillRunning)
    \/ LateProviderReturn
    \/ CloseResultChan
    \/ Collect
    \/ ReturnFetch

SpecPF == InitFetcher("stats") /\ [][NextPF]_vars

\* the steps that need nothing but the scheduler and the timer of
\* context.WithTimeout(ctx, pf.timeout): the call itself, a goroutine taking a
\* free semaphore slot, executeFetch leaving its select on ctx.Done, the
\* closer, the collector and the return.  A provider call returning is not
\* among them: it may never return.
FetchProgress ==
    \/ StartFetch
    \/ \E t \in TxTypes : Acquire(t)
    \/ \E t \in TxTypes, stillRunning \in BOOLEAN : SelectTimeout(t, stillRunning)
    \/ CloseResultChan
    \/ Collect
    \/ ReturnFetch

SpecPFFair == SpecPF /\ WF_vars(FetchProgress)
SpecPFLegacy == InitFetcher("legacy") /\ [][NextPF]_vars

(***************************************************************************)
(* TransactionFetcher.FetchAllTransactions (fetcher.go)                    *)
(*   impl = "seq":  lines 31-84, the five categories one after the other   *)
(*   impl = "conc": lines 213-294, one goroutine per category              *)
(***************************************************************************)
\* fetch<Type>Transactions of TransactionFetcher: a failed normalization is
\* skipped, anything else is appended
FetchNormalized(t, resp) ==
    IF resp.err
    THEN [Transactions |-> <<>>, Err |-> "provider"]
    ELSE [Transactions |->
              NormalizeLoop(t, resp.raws, [normalized |-> <<>>, stats |-> ZeroStats]).normalized,
          Err |-> NoErr]

\* variables FetchAllTransactions does not have
pfOnly == <<maxConcurrent, parentDone, sem, semClosed, abandoned, fetchStats,
           collected, provided, timeout, errors>>

InitTF(i) ==
    /\ prog = "tf"
    /\ impl = i
    /\ maxConcurrent = 0
    /\ parentDone = FALSE
    /\ sem = 0
    /\ semClosed = FALSE
    /\ fpc = [t \in TxTypes |-> "idle"]
    /\ abandoned = 0
    /\ fetchStats = [t \in TxTypes |-> 0]
    /\ collected = [t \in TxTypes |-> 0]
    /\ provided = [t \in TxTypes |-> Nil]
    /\ timeout = 0
    /\ resultChan = <<>>
    /\ resultClosed = FALSE
    /\ wg = 0
    /\ allTransactions = <<>>
    /\ errors = {}
    /\ mpc = "start"
    /\ ret = Nil
    /\ NormIdle
    /\ rawTx = Nil

\* sequential variant: the next category to fetch
NextType == CHOOSE t \in TxTypes : fpc[t] # "done" /\ \A u \in TxTypes : u < t => fpc[u] = "done"

\* sequential variant: one fetch<Type>Transactions call and its error check
SeqFetch ==
    /\ prog = "tf" /\ impl = "seq" /\ mpc = "start"
    /\ UNCHANGED normVars
    /\ \E t \in TxTypes : fpc[t] # "done"
    /\ \E resp \in ProviderResponses(NextType) :
          LET r == FetchNormalized(NextType, resp) IN
          /\ provided' = [provided EXCEPT ![NextType] = resp]
          /\ IF r.Err # NoErr
             THEN /\ ret' = [txs |-> <<>>, err |-> "fetch"]
                  /\ mpc' = "returned"
                  /\ fpc' = [fpc EXCEPT ![NextType] = "failed"]
                  /\ UNCHANGED allTransactions
             ELSE /\ allTransactions' = allTransactions \o r.Transactions
                  /\ fpc' = [fpc EXCEPT ![NextType] = "done"]
                  /\ UNCHANGED <<ret, mpc>>
    /\ UNCHANGED <<prog, impl, resultChan, resultClosed, wg>>
    /\ UNCHANGED <<maxConcurrent, parentDone, sem, semClosed, abandoned,
                   fetchStats, collected, timeout, errors>>

\* sequential variant: sort.Sort and return
SeqReturn ==
    /\ prog = "tf" /\ impl = "seq" /\ mpc = "start"
    /\ UNCHANGED normVars
    /\ \A t \in TxTypes : fpc[t] = "done"
    /\ \E sorted \in SortOutcomes(allTransactions) : ret' = [txs |-> sorted, err |-> NoErr]
    /\ mpc' = "returned"
    /\ UNCHANGED <<prog, impl, fpc, resultChan, resultClosed, wg, allTransactions>>
    /\ UNCHANGED pfOnly

\* make(chan FetchResult, 5)
ResultsCap == 5

\* goroutine variant: the five wg.Add(1); go func() statements
ConcStart ==
    /\ prog = "tf" /\ impl = "conc" /\ mpc = "start"
    /\ UNCHANGED normVars
    /\ wg' = NumTypes
    /\ fpc' = [t \in TxTypes |-> "run"]
    /\ mpc' = "collect"
    /\ UNCHANGED <<prog, impl, resultChan, resultClosed, allTransactions, ret>>
    /\ UNCHANGED pfOnly

\* fault injection: results has room for one result only
\* (make(chan FetchResult, 1))
ConcFetchedSmall(t) ==
    /\ prog = "tf" /\ fpc[t] = "run"
    /\ UNCHANGED normVars
    /\ Len(resultChan) < 1
    /\ \E resp \in ProviderResponses(t) :
          /\ resultChan' = Append(resultChan, FetchNormalized(t, resp))
          /\ fpc' = [fpc EXCEPT ![t] = IF resp.err THEN "failed" ELSE "done"]
          /\ provided' = [provided EXCEPT ![t] = resp]
    /\ wg' = wg - 1
    /\ UNCHANGED <<prog, impl, resultClosed, allTransactions, mpc, ret>>
    /\ UNCHANGED <<maxConcurrent, parentDone, sem, semClosed, abandoned,
                   fetchStats, collected, timeout, errors>>

\* goroutine variant: a goroutine's fetch returns, it sends on results and
\* its deferred wg.Done() runs; fpc keeps whether the fetch failed
ConcFetched(t) ==
    /\ prog = "tf" /\ fpc[t] = "run"
    /\ UNCHANGED normVars
    /\ Len(resultChan) < ResultsCap
    /\ \E resp \in ProviderResponses(t) :
          /\ resultChan' = Append(resultChan, FetchNormalized(t, resp))
          /\ fpc' = [fpc EXCEPT ![t] = IF resp.err THEN "failed" ELSE "done"]
          /\ provided' = [provided EXCEPT ![t] = resp]
    /\ wg' = wg - 1
    /\ UNCHANGED <<prog, impl, resultClosed, allTransactions, mpc, ret>>
    /\ UNCHANGED <<maxConcurrent, parentDone, sem, semClosed, abandoned,
                   fetchStats, collected, timeout, errors>>

\* goroutine variant: go func() { wg.Wait(); close(results) }()
ConcClose ==
    /\ prog = "tf" /\ impl = "conc" /\ mpc # "start" /\ wg = 0 /\ ~resultClosed
    /\ UNCHANGED normVars
    /\ resultClosed' = TRUE
    /\ UNCHANGED <<prog, impl, fpc, resultChan, wg, allTransactions, mpc, ret>>
    /\ UNCHANGED pfOnly

\* fault injection: a collector that skips a failed result and goes on
ConcCollectSkipFailed ==
    /\ prog = "tf" /\ mpc = "collect" /\ resultChan # <<>>
    /\ UNCHANGED normVars
    /\ LET result == Head(resultChan) IN
          IF result.Err # NoErr
          THEN UNCHANGED <<allTransactions, ret, mpc>>
          ELSE /\ allTransactions' = allTransactions \o result.Transactions
               /\ UNCHANGED <<ret, mpc>>
    /\ resultChan' = Tail(resultChan)
    /\ UNCHANGED <<prog, impl, fpc, resultClosed, wg>>
    /\ UNCHANGED pfOnly

\* goroutine variant: one iteration of for result := range results
ConcCollect ==
    /\ prog = "tf" /\ mpc = "collect" /\ resultChan # <<>>
    /\ UNCHANGED normVars
    /\ LET result == Head(resultChan) IN
          IF result.Err # NoErr
          THEN /\ ret' = [txs |-> <<>>, err |-> "fetch"]
               /\ mpc' = "returned"
               /\ UNCHANGED allTransactions
          ELSE /\ allTransactions' = allTransactions \o result.Transactions
               /\ UNCHANGED <<ret, mpc>>
    /\ resultChan' = Tail(resultChan)
    /\ UNCHANGED <<prog, impl, fpc, resultClosed, wg>>
    /\ UNCHANGED pfOnly

\* goroutine variant: the range loop ends; sort.Sort and return
ConcReturn ==
    /\ prog = "tf" /\ mpc = "collect" /\ resultChan = <<>> /\ resultClosed
    /\ UNCHANGED normVars
    /\ \E sorted \in SortOutcomes(allTransactions) : ret' = [txs |-> sorted, err |-> NoErr]
    /\ mpc' = "returned"
    /\ UNCHANGED <<prog, impl, fpc, resultChan, resultClosed, wg, allTransactions>>
    /\ UNCHANGED pfOnly

NextTF ==
    \/ SeqFetch
    \/ SeqReturn
    \/ ConcStart
    \/ \E t \in TxTypes : ConcFetched(t)
    \/ ConcClose
    \/ ConcCollect
    \/ ConcReturn

SpecTF == (InitTF("seq") \/ InitTF("conc")) /\ [][NextTF]_vars

(***************************************************************************)
(* ParallelNormalizer.NormalizeTransactionsParallel                        *)
(*   impl = "typed":  src/unnamed/part_006 (normalizeWorkerPoolTyped,      *)
(*                    statistics)                                          *)
(*   impl = "legacy": src/pkg/providers/parallel_normalizer.go             *)
(*                    (normalizeWorkerPool, no statistics)                 *)
(***************************************************************************)
\* what a run of the normalizer never changes
normConfig == <<prog, impl, workerCount, bufferSize, items, rawTx,
                clientVars, writerVars>>

\* bounds of the explored inputs and configurations
MaxWorkers == 2
MaxBuffer == 1
MaxNormalItems == 2
MaxOtherItems == 1
MaxPools == 2

\* make(chan NormalizationStats, 5)
StatsChanCap == 5

\* the i-th raw record of category c, answered by the Normalizer with n
PoolRecord(c, i, n) == RawRecord(c * 10 + i, 0, 0, n)

\* the answers of the Normalizer to the records of category c
OutcomeLists(c) ==
    UNION {[1..n -> {"ok", "err", "nil"}] :
              n \in 0..(IF c = TxTypeNormal THEN MaxNormalItems ELSE MaxOtherItems)}

\* the five record lists a run may be given
NormInputs ==
    {[c \in TxTypes |->
        IF c < MaxPools
        THEN [i \in DOMAIN f[c] |-> PoolRecord(c, i, f[c][i])]
        ELSE <<>>] :
        f \in {g \in [0..(MaxPools - 1) -> UNION {OutcomeLists(c) : c \in TxTypes}] :
                  \A c \in 0..(MaxPools - 1) : g[c] \in OutcomeLists(c)}}

\* the categories a worker pool is started for: if len(xTxs) > 0
Pools == {c \in TxTypes : Len(items[c]) > 0}

Workers == 1..workerCount

\* totalWork := len(normalTxs) + len(internalTxs) + len(tokenTxs) +
\* len(nftTxs) + len(erc1155Txs)
totalWork ==
    Len(items[TxTypeNormal]) + Len(items[TxTypeInternal]) +
    Len(items[TxTypeToken]) + Len(items[TxTypeNFT]) + Len(items[TxTypeERC1155])

\* fault injection: the critical section without stats.ErrorCount++
PoolCountNoError(st, c, raw) ==
    LET n == [st EXCEPT !.TotalProcessed = @ + 1] IN
    IF NormalizeErr(raw)
    THEN [n EXCEPT !.Errors = Append(@, raw.Hash)]
    ELSE IF NormalizeTx(c, raw) # Nil
    THEN [n EXCEPT !.SuccessCount = @ + 1]
    ELSE n

\* the critical section of a typed worker: count the record it normalized
PoolCount(st, c, raw) ==
    LET n == [st EXCEPT !.TotalProcessed = @ + 1] IN
    IF NormalizeErr(raw)
    THEN [n EXCEPT !.ErrorCount = @ + 1, !.Errors = Append(@, raw.Hash)]
    ELSE IF NormalizeTx(c, raw) # Nil
    THEN [n EXCEPT !.SuccessCount = @ + 1]
    ELSE n

\* fault injection: the collector keeps the last pool's stats instead of
\* adding them up
MergeStatsLast(agg, st) == st

\* the collector's merge of one pool's stats
MergeStats(agg, st) ==
    [TotalProcessed |-> agg.TotalProcessed + st.TotalProcessed,
     SuccessCount |-> agg.SuccessCount + st.SuccessCount,
     ErrorCount |-> agg.ErrorCount + st.ErrorCount,
     Errors |-> agg.Errors \o st.Errors]

\* a ParallelNormalizer configured with SetWorkerCount and SetBufferSize,
\* about to run entry point p on the five record lists
InitPools(p, i) ==
    /\ prog = p
    /\ impl = i
    /\ maxConcurrent = 0
    /\ parentDone = FALSE
    /\ sem = 0
    /\ semClosed = FALSE
    /\ fpc = [t \in TxTypes |-> "idle"]
    /\ abandoned = 0
    /\ fetchStats = [t \in TxTypes |-> 0]
    /\ collected = [t \in TxTypes |-> 0]
    /\ provided = [t \in TxTypes |-> Nil]
    /\ timeout = 0
    /\ errors = {}
    /\ resultChan = <<>>
    /\ resultClosed = FALSE
    /\ wg = 0
    /\ allTransactions = <<>>
    /\ mpc = "start"
    /\ ret = Nil
    /\ workerCount \in 1..MaxWorkers
    /\ bufferSize \in 1..MaxBuffer
    /\ items \in NormInputs
    /\ filled = [c \in TxTypes |-> 0]
    /\ workQueue = [c \in TxTypes |-> <<>>]
    /\ wqClosed = [c \in TxTypes |-> FALSE]
    /\ fillerExited = [c \in TxTypes |-> FALSE]
    /\ wpc = [c \in TxTypes |-> [w \in Workers |-> "none"]]
    /\ witem = [c \in TxTypes |-> [w \in Workers |-> Nil]]
    /\ mutex = [c \in TxTypes |-> 0]
    /\ stats = [c \in TxTypes |-> ZeroStats]
    /\ ppc = [c \in TxTypes |-> "none"]
    /\ statsChan = <<>>
    /\ statsClosed = FALSE
    /\ aggregateStats = ZeroStats
    /\ rcNil = FALSE
    /\ scNil = FALSE
    /\ taken = [c \in TxTypes |-> <<>>]
    /\ rawTx = Nil
    /\ ClientIdle
    /\ WriterIdle

\* ... about to run NormalizeTransactionsParallel
InitNorm(i) ==
    /\ InitPools("norm", i)
    /\ StreamIdle

\* the caller cancels ctx
NormCancel ==
    /\ prog = "norm" /\ mpc # "returned" /\ ~parentDone
    /\ parentDone' = TRUE
    /\ UNCHANGED <<resultChan, resultClosed, wg, allTransactions, mpc, ret,
                   filled, workQueue, wqClosed, fillerExited, wpc, witem, mutex,
                   stats, ppc, statsChan, statsClosed, aggregateStats, rcNil,
                   scNil>>
    /\ UNCHANGED normConfig
    /\ UNCHANGED taken
    /\ UNCHANGED streamVars
    /\ atCancel' = Len(allTransactions)
    /\ UNCHANGED fetchVars

\* fault injection: a worker pool is started for every category, empty or
\* not
NormStartAll ==
    /\ InPools /\ mpc = "start"
    /\ wg' = NumTypes
    /\ ppc' = [c \in TxTypes |-> "wait"]
    /\ wpc' = [c \in TxTypes |-> [w \in Workers |-> "recv"]]
    /\ mpc' = "collect"
    /\ UNCHANGED <<parentDone, resultChan, resultClosed, allTransactions, ret,
                   filled, workQueue, wqClosed, fillerExited, witem, mutex,
                   stats, statsChan, statsClosed, aggregateStats, rcNil, scNil>>
    /\ UNCHANGED normConfig
    /\ UNCHANGED taken
    /\ UNCHANGED streamVars
    /\ UNCHANGED atCancel
    /\ UNCHANGED fetchVars

\* wg.Add(1); go normalizeWorkerPool...(...) for every category with records;
\* each pool starts its queue filler and its workers
NormStart ==
    /\ InPools /\ mpc = "start"
    /\ wg' = Cardinality(Pools)
    /\ ppc' = [c \in TxTypes |-> IF c \in Pools THEN "wait" ELSE "none"]
    /\ wpc' = [c \in TxTypes |-> [w \in Workers |-> IF c \in Pools THEN "recv" ELSE "none"]]
    /\ mpc' = "collect"
    /\ UNCHANGED <<parentDone, resultChan, resultClosed, allTransactions, ret,
                   filled, workQueue, wqClosed, fillerExited, witem, mutex,
                   stats, statsChan, statsClosed, aggregateStats, rcNil, scNil>>
    /\ UNCHANGED normConfig
    /\ UNCHANGED taken
    /\ UNCHANGED streamVars
    /\ UNCHANGED atCancel
    /\ UNCHANGED fetchVars

\* queue filler: case workQueue <- item; after the last record the queue is
\* closed (deferred close in part_006, close at the end of the goroutine in
\* parallel_normalizer.go)
Fill(c) ==
    /\ InPools /\ ppc[c] # "none" /\ ~fillerExited[c]
    /\ filled[c] < Len(items[c])
    /\ workQueue' = [workQueue EXCEPT ![c] = Append(@, items[c][filled[c] + 1])]
    /\ filled' = [filled EXCEPT ![c] = @ + 1]
    /\ wqClosed' = [wqClosed EXCEPT ![c] = filled[c] + 1 = Len(items[c])]
    /\ fillerExited' = [fillerExited EXCEPT ![c] = filled[c] + 1 = Len(items[c])]
    /\ UNCHANGED <<parentDone, resultChan, resultClosed, wg, allTransactions,
                   mpc, ret, wpc, witem, mutex, stats, ppc, statsChan,
                   statsClosed, aggregateStats, rcNil, scNil>>
    /\ UNCHANGED normConfig
    /\ UNCHANGED taken
    /\ UNCHANGED streamVars
    /\ UNCHANGED atCancel
    /\ UNCHANGED fetchVars

\* queue filler: case <-ctx.Done(): return.  part_006 closes the queue on the
\* way out (defer close(workQueue)); parallel_normalizer.go returns before
\* its close(workQueue)
FillCancelled(c) ==
    /\ InPools /\ ppc[c] # "none" /\ ~fillerExited[c]
    /\ filled[c] < Len(items[c])
    /\ parentDone
    /\ fillerExited' = [fillerExited EXCEPT ![c] = TRUE]
    /\ wqClosed' = [wqClosed EXCEPT ![c] = (impl = "typed")]
    /\ UNCHANGED <<parentDone, resultChan, resultClosed, wg, allTransactions,
                   mpc, ret, filled, workQueue, wpc, witem, mutex, stats, ppc,
                   statsChan, statsClosed, aggregateStats, rcNil, scNil>>
    /\ UNCHANGED normConfig
    /\ UNCHANGED taken
    /\ UNCHANGED streamVars
    /\ UNCHANGED atCancel
    /\ UNCHANGED fetchVars

\* worker: for item := range workQueue receives a record
Dequeue(c, w) ==
    /\ InPools /\ wpc[c][w] = "recv"
    /\ workQueue[c] # <<>>
    /\ witem' = [witem EXCEPT ![c][w] = Head(workQueue[c])]
    /\ workQueue' = [workQueue EXCEPT ![c] = Tail(@)]
    /\ wpc' = [wpc EXCEPT ![c][w] = "got"]
    /\ UNCHANGED <<parentDone, resultChan, resultClosed, wg, allTransactions,
                   mpc, ret, filled, wqClosed, fillerExited, mutex, stats, ppc,
                   statsChan, statsClosed, aggregateStats, rcNil, scNil>>
    /\ UNCHANGED normConfig
    /\ taken' = [taken EXCEPT ![c] = Append(@, Head(workQueue[c]).Hash)]
    /\ UNCHANGED streamVars
    /\ UNCHANGED atCancel
    /\ UNCHANGED fetchVars

\* worker: the range loop ends, the queue is closed and empty
WorkerEnd(c, w) ==
    /\ InPools /\ wpc[c][w] = "recv"
    /\ workQueue[c] = <<>> /\ wqClosed[c]
    /\ wpc' = [wpc EXCEPT ![c][w] = "exited"]
    /\ UNCHANGED <<parentDone, resultChan, resultClosed, wg, allTransactions,
                   mpc, ret, filled, workQueue, wqClosed, fillerExited, witem,
                   mutex, stats, ppc, statsChan, statsClosed, aggregateStats,
                   rcNil, scNil>>
    /\ UNCHANGED normConfig
    /\ UNCHANGED taken
    /\ UNCHANGED streamVars
    /\ UNCHANGED atCancel
    /\ UNCHANGED fetchVars

\* worker: select { case <-ctx.Done(): return
WorkerCancelled(c, w) ==
    /\ InPools /\ wpc[c][w] = "got"
    /\ parentDone
    /\ wpc' = [wpc EXCEPT ![c][w] = "exited"]
    /\ witem' = [witem EXCEPT ![c][w] = Nil]
    /\ UNCHANGED <<parentDone, resultChan, resultClosed, wg, allTransactions,
                   mpc, ret, filled, workQueue, wqClosed, fillerExited, mutex,
                   stats, ppc, statsChan, statsClosed, aggregateStats, rcNil,
                   scNil>>
    /\ UNCHANGED normConfig
    /\ UNCHANGED taken
    /\ UNCHANGED streamVars
    /\ UNCHANGED atCancel
    /\ UNCHANGED fetchVars

\* worker: default: the record is normalized.  The typed worker goes on to
\* statsMutex.Lock(); the legacy worker sends a non-nil result and drops the
\* rest
Normalize(c, w) ==
    /\ InPools /\ wpc[c][w] = "got"
    /\ ~parentDone
    /\ IF impl = "typed"
       THEN /\ wpc' = [wpc EXCEPT ![c][w] = "lock"]
            /\ UNCHANGED witem
       ELSE IF NormalizeTx(c, witem[c][w]) # Nil
       THEN /\ wpc' = [wpc EXCEPT ![c][w] = "send"]
            /\ UNCHANGED witem
       ELSE /\ wpc' = [wpc EXCEPT ![c][w] = "recv"]
            /\ witem' = [witem EXCEPT ![c][w] = Nil]
    /\ UNCHANGED <<parentDone, resultChan, resultClosed, wg, allTransactions,
                   mpc, ret, filled, workQueue, wqClosed, fillerExited, mutex,
                   stats, ppc, statsChan, statsClosed, aggregateStats, rcNil,
                   scNil>>
    /\ UNCHANGED normConfig
    /\ UNCHANGED taken
    /\ UNCHANGED streamVars
    /\ UNCHANGED atCancel
    /\ UNCHANGED fetchVars

\* typed worker: statsMutex.Lock(), the counters, and statsMutex.Unlock()
\* unless a result is to be sent (the mutex is kept across the send)
LockCount(c, w) ==
    /\ InPools /\ wpc[c][w] = "lock"
    /\ mutex[c] = 0
    /\ stats' = [stats EXCEPT ![c] = PoolCount(@, c, witem[c][w])]
    /\ IF ~NormalizeErr(witem[c][w]) /\ NormalizeTx(c, witem[c][w]) # Nil
       THEN /\ mutex' = [mutex EXCEPT ![c] = w]
            /\ wpc' = [wpc EXCEPT ![c][w] = "send"]
            /\ UNCHANGED witem
       ELSE /\ wpc' = [wpc EXCEPT ![c][w] = "recv"]
            /\ witem' = [witem EXCEPT ![c][w] = Nil]
            /\ UNCHANGED mutex
    /\ UNCHANGED <<parentDone, resultChan, resultClosed, wg, allTransactions,
                   mpc, ret, filled, workQueue, wqClosed, fillerExited, ppc,
                   statsChan, statsClosed, aggregateStats, rcNil, scNil>>
    /\ UNCHANGED normConfig
    /\ UNCHANGED taken
    /\ UNCHANGED streamVars
    /\ UNCHANGED atCancel
    /\ UNCHANGED fetchVars

\* fault injection: a send that gives up when the result buffer is full
\* (select with a default branch)
SendTxOrDrop(c, w) ==
    /\ InPools /\ wpc[c][w] = "send"
    /\ resultChan' = IF Len(resultChan) < bufferSize
                     THEN Append(resultChan, NormalizeTx(c, witem[c][w]))
                     ELSE resultChan
    /\ mutex' = [mutex EXCEPT ![c] = 0]
    /\ wpc' = [wpc EXCEPT ![c][w] = "recv"]
    /\ witem' = [witem EXCEPT ![c][w] = Nil]
    /\ UNCHANGED <<parentDone, resultClosed, wg, allTransactions, mpc, ret,
                   filled, workQueue, wqClosed, fillerExited, stats, ppc,
                   statsChan, statsClosed, aggregateStats, rcNil, scNil>>
    /\ UNCHANGED normConfig
    /\ UNCHANGED taken
    /\ UNCHANGED streamVars
    /\ UNCHANGED atCancel
    /\ UNCHANGED fetchVars

\* worker: case resultChan <- result
SendTx(c, w) ==
    /\ InPools /\ wpc[c][w] = "send"
    /\ Len(resultChan) < bufferSize
    /\ resultChan' = Append(resultChan, NormalizeTx(c, witem[c][w]))
    /\ mutex' = [mutex EXCEPT ![c] = 0]
    /\ wpc' = [wpc EXCEPT ![c][w] = "recv"]
    /\ witem' = [witem EXCEPT ![c][w] = Nil]
    /\ UNCHANGED <<parentDone, resultClosed, wg, allTransactions, mpc, ret,
                   filled, workQueue, wqClosed, fillerExited, stats, ppc,
                   statsChan, statsClosed, aggregateStats, rcNil, scNil>>
    /\ UNCHANGED normConfig
    /\ UNCHANGED taken
    /\ UNCHANGED streamVars
    /\ UNCHANGED atCancel
    /\ UNCHANGED fetchVars

\* worker: case <-ctx.Done() of the send: unlock (typed) and return
SendCancelled(c, w) ==
    /\ InPools /\ wpc[c][w] = "send"
    /\ parentDone
    /\ mutex' = [mutex EXCEPT ![c] = 0]
    /\ wpc' = [wpc EXCEPT ![c][w] = "exited"]
    /\ witem' = [witem EXCEPT ![c][w] = Nil]
    /\ UNCHANGED <<parentDone, resultChan, resultClosed, wg, allTransactions,
                   mpc, ret, filled, workQueue, wqClosed, fillerExited, stats,
                   ppc, statsChan, statsClosed, aggregateStats, rcNil, scNil, taken>>
    /\ UNCHANGED normConfig
    /\ UNCHANGED taken
    /\ UNCHANGED streamVars
    /\ UNCHANGED atCancel
    /\ UNCHANGED fetchVars

\* fault injection: the pool does not wait for its workers (no
\* workerWg.Wait())
PoolWaitEarly(c) ==
    /\ InPools /\ ppc[c] = "wait"
    /\ IF impl = "typed"
       THEN /\ ppc' = [ppc EXCEPT ![c] = "stats"]
            /\ UNCHANGED wg
       ELSE /\ ppc' = [ppc EXCEPT ![c] = "done"]
            /\ wg' = wg - 1
    /\ UNCHANGED <<parentDone, resultChan, resultClosed, allTransactions, mpc,
                   ret, filled, workQueue, wqClosed, fillerExited, wpc, witem,
                   mutex, stats, statsChan, statsClosed, aggregateStats, rcNil,
                   scNil>>
    /\ UNCHANGED normConfig
    /\ UNCHANGED taken
    /\ UNCHANGED streamVars
    /\ UNCHANGED atCancel
    /\ UNCHANGED fetchVars

\* pool: workerWg.Wait() returns; the legacy pool is done (wg.Done())
PoolWait(c) ==
    /\ InPools /\ ppc[c] = "wait"
    /\ \A w \in Workers : wpc[c][w] = "exited"
    /\ IF impl = "typed"
       THEN /\ ppc' = [ppc EXCEPT ![c] = "stats"]
            /\ UNCHANGED wg
       ELSE /\ ppc' = [ppc EXCEPT ![c] = "done"]
            /\ wg' = wg - 1
    /\ UNCHANGED <<parentDone, resultChan, resultClosed, allTransactions, mpc,
                   ret, filled, workQueue, wqClosed, fillerExited, wpc, witem,
                   mutex, stats, statsChan, statsClosed, aggregateStats, rcNil,
                   scNil>>
    /\ UNCHANGED normConfig
    /\ UNCHANGED taken
    /\ UNCHANGED streamVars
    /\ UNCHANGED atCancel
    /\ UNCHANGED fetchVars

\* typed pool: case statsChan <- stats, then the deferred wg.Done()
SendStats(c) ==
    /\ InPools /\ ppc[c] = "stats"
    /\ Len(statsChan) < StatsChanCap
    /\ statsChan' = Append(statsChan, stats[c])
    /\ ppc' = [ppc EXCEPT ![c] = "done"]
    /\ wg' = wg - 1
    /\ UNCHANGED <<parentDone, resultChan, resultClosed, allTransactions, mpc,
                   ret, filled, workQueue, wqClosed, fillerExited, wpc, witem,
                   mutex, stats, statsClosed, aggregateStats, rcNil, scNil>>
    /\ UNCHANGED normConfig
    /\ UNCHANGED taken
    /\ UNCHANGED streamVars
    /\ UNCHANGED atCancel
    /\ UNCHANGED fetchVars

\* typed pool: case <-ctx.Done() of the stats send, then wg.Done()
SkipStats(c) ==
    /\ InPools /\ ppc[c] = "stats"
    /\ parentDone
    /\ ppc' = [ppc EXCEPT ![c] = "done"]
    /\ wg' = wg - 1
    /\ UNCHANGED <<parentDone, resultChan, resultClosed, allTransactions, mpc,
                   ret, filled, workQueue, wqClosed, fillerExited, wpc, witem,
                   mutex, stats, statsChan, statsClosed, aggregateStats, rcNil,
                   scNil>>
    /\ UNCHANGED normConfig
    /\ UNCHANGED taken
    /\ UNCHANGED streamVars
    /\ UNCHANGED atCancel
    /\ UNCHANGED fetchVars

\* fault injection: the closer does not wait for the pools (no wg.Wait())
CloseChansEarly ==
    /\ Collecting /\ mpc # "start" /\ ~resultClosed
    /\ resultClosed' = TRUE
    /\ statsClosed' = (impl = "typed")
    /\ UNCHANGED <<parentDone, resultChan, wg, allTransactions, mpc, ret,
                   filled, workQueue, wqClosed, fillerExited, wpc, witem, mutex,
                   stats, ppc, statsChan, aggregateStats, rcNil, scNil>>
    /\ UNCHANGED normConfig
    /\ UNCHANGED taken
    /\ UNCHANGED streamVars
    /\ UNCHANGED atCancel
    /\ UNCHANGED fetchVars

\* go func() { wg.Wait(); close(resultChan); close(statsChan) }()
CloseChans ==
    /\ Collecting /\ mpc # "start" /\ wg = 0 /\ ~resultClosed
    /\ resultClosed' = TRUE
    /\ statsClosed' = (impl = "typed")
    /\ UNCHANGED <<parentDone, resultChan, wg, allTransactions, mpc, ret,
                   filled, workQueue, wqClosed, fillerExited, wpc, witem, mutex,
                   stats, ppc, statsChan, aggregateStats, rcNil, scNil>>
    /\ UNCHANGED normConfig
    /\ UNCHANGED taken
    /\ UNCHANGED streamVars
    /\ UNCHANGED atCancel
    /\ UNCHANGED fetchVars

\* collector: a transaction is received and appended
RecvTx ==
    /\ Collecting /\ mpc = "collect" /\ ~rcNil
    /\ resultChan # <<>>
    /\ allTransactions' = Append(allTransactions, Head(resultChan))
    /\ resultChan' = Tail(resultChan)
    /\ UNCHANGED <<parentDone, resultClosed, wg, mpc, ret, filled, workQueue,
                   wqClosed, fillerExited, wpc, witem, mutex, stats, ppc,
                   statsChan, statsClosed, aggregateStats, rcNil, scNil>>
    /\ UNCHANGED normConfig
    /\ UNCHANGED taken
    /\ UNCHANGED streamVars
    /\ UNCHANGED atCancel
    /\ UNCHANGED fetchVars

\* typed collector: a pool's stats are received and merged
RecvStats ==
    /\ Collecting /\ mpc = "collect" /\ ~scNil
    /\ statsChan # <<>>
    /\ aggregateStats' = MergeStats(aggregateStats, Head(statsChan))
    /\ statsChan' = Tail(statsChan)
    /\ UNCHANGED <<parentDone, resultChan, resultClosed, wg, allTransactions,
                   mpc, ret, filled, workQueue, wqClosed, fillerExited, wpc,
                   witem, mutex, stats, ppc, statsClosed, rcNil, scNil>>
    /\ UNCHANGED normConfig
    /\ UNCHANGED taken
    /\ UNCHANGED streamVars
    /\ UNCHANGED atCancel
    /\ UNCHANGED fetchVars

\* collector: the result channel is closed and drained.  The legacy
\* collector returns; the typed one sets resultChan = nil and returns once
\* statsChan is nil too
ResultChanEnd ==
    /\ Collecting /\ mpc = "collect" /\ ~rcNil
    /\ resultChan = <<>> /\ resultClosed
    /\ rcNil' = TRUE
    /\ IF impl = "legacy" \/ scNil
       THEN /\ mpc' = "returned"
            /\ ret' = [Transactions |-> allTransactions, Stats |-> aggregateStats]
       ELSE UNCHANGED <<mpc, ret>>
    /\ UNCHANGED <<parentDone, resultChan, resultClosed, wg, allTransactions,
                   filled, workQueue, wqClosed, fillerExited, wpc, witem, mutex,
                   stats, ppc, statsChan, statsClosed, aggregateStats, scNil>>
    /\ UNCHANGED normConfig
    /\ UNCHANGED taken
    /\ UNCHANGED streamVars
    /\ UNCHANGED atCancel
    /\ UNCHANGED fetchVars

\* typed collector: the stats channel is closed and drained
StatsChanEnd ==
    /\ Collecting /\ mpc = "collect" /\ ~scNil
    /\ statsChan = <<>> /\ statsClosed
    /\ scNil' = TRUE
    /\ IF rcNil
       THEN /\ mpc' = "returned"
            /\ ret' = [Transactions |-> allTransactions, Stats |-> aggregateStats]
       ELSE UNCHANGED <<mpc, ret>>
    /\ UNCHANGED <<parentDone, resultChan, resultClosed, wg, allTransactions,
                   filled, workQueue, wqClosed, fillerExited, wpc, witem, mutex,
                   stats, ppc, statsChan, statsClosed, aggregateStats, rcNil>>
    /\ UNCHANGED normConfig
    /\ UNCHANGED taken
    /\ UNCHANGED streamVars
    /\ UNCHANGED atCancel
    /\ UNCHANGED fetchVars

NextNorm ==
    \/ NormCancel
    \/ NormStart
    \/ \E c \in TxTypes : Fill(c)
    \/ \E c \in TxTypes : FillCancelled(c)
    \/ \E c \in TxTypes, w \in Workers : Dequeue(c, w)
    \/ \E c \in TxTypes, w \in Workers : WorkerEnd(c, w)
    \/ \E c \in TxTypes, w \in Workers : WorkerCancelled(c, w)
    \/ \E c \in TxTypes, w \in Workers : Normalize(c, w)
    \/ \E c \in TxTypes, w \in Workers : LockCount(c, w)
    \/ \E c \in TxTypes, w \in Workers : SendTx(c, w)
    \/ \E c \in TxTypes, w \in Workers : SendCancelled(c, w)
    \/ \E c \in TxTypes : PoolWait(c)
    \/ \E c \in TxTypes : SendStats(c)
    \/ \E c \in TxTypes : SkipStats(c)
    \/ CloseChans
    \/ RecvTx
    \/ RecvStats
    \/ ResultChanEnd
    \/ StatsChanEnd

\* the steps of parallel_normalizer.go, which has no statistics
NextNormLegacy ==
    \/ NormCancel
    \/ NormStart
    \/ \E c \in TxTypes : Fill(c)
    \/ \E c \in TxTypes : FillCancelled(c)
    \/ \E c \in TxTypes, w \in Workers : Dequeue(c, w)
    \/ \E c \in TxTypes, w \in Workers : WorkerEnd(c, w)
    \/ \E c \in TxTypes, w \in Workers : WorkerCancelled(c, w)
    \/ \E c \in TxTypes, w \in Workers : Normalize(c, w)
    \/ \E c \in TxTypes, w \in Workers : SendTx(c, w)
    \/ \E c \in TxTypes, w \in Workers : SendCancelled(c, w)
    \/ \E c \in TxTypes : PoolWait(c)
    \/ CloseChans
    \/ RecvTx
    \/ ResultChanEnd

SpecNorm == InitNorm("typed") /\ [][NextNorm]_vars

\* both generations of the normalizer
SpecNormAll == (InitNorm("typed") \/ InitNorm("legacy")) /\ [][NextNorm]_vars
SpecNormLegacy == InitNorm("legacy") /\ [][NextNormLegacy]_vars

(***************************************************************************)
(* ParallelNormalizer.StreamNormalizeResults                               *)
(*   impl = "typed":  part_006 (NormalizeTransactionsParallel to the end,  *)
(*                    then its result is sent on the returned channel)     *)
(*   impl = "legacy": parallel_normalizer.go (the pools send on the        *)
(*                    returned channel, closed after wg.Wait())            *)
(***************************************************************************)
\* StreamNormalizeResults has returned its channel and started its goroutine
InitStream(i) ==
    /\ InitPools("stream", i)
    /\ atCancel = 0
    /\ streamChan = <<>>
    /\ closes = 0
    /\ spc = "run"
    /\ sent = 0
    /\ received = <<>>

\* the channel the caller of StreamNormalizeResults holds: the one part_006
\* makes for it, or the resultChan the pools of parallel_normalizer.go send on
OutChan == IF impl = "typed" THEN streamChan ELSE resultChan

\* what a step of the stream's producer side leaves alone
poolState == <<resultChan, resultClosed, wg, allTransactions, mpc, ret, filled,
               workQueue, wqClosed, fillerExited, wpc, witem, mutex, stats, ppc,
               statsChan, statsClosed, aggregateStats, rcNil, scNil, taken>>

\* the caller cancels ctx
StreamCancel ==
    /\ prog = "stream" /\ spc = "run" /\ ~parentDone
    /\ parentDone' = TRUE
    /\ UNCHANGED poolState
    /\ UNCHANGED streamVars
    /\ UNCHANGED normConfig
    /\ UNCHANGED atCancel
    /\ UNCHANGED fetchVars

\* part_006: case resultChan <- tx of the loop over result.Transactions
StreamSend ==
    /\ prog = "stream" /\ impl = "typed"
    /\ spc = "run" /\ mpc = "returned"
    /\ sent < Len(ret.Transactions)
    /\ Len(streamChan) < bufferSize
    /\ streamChan' = Append(streamChan, ret.Transactions[sent + 1])
    /\ sent' = sent + 1
    /\ UNCHANGED <<closes, spc, received, parentDone>>
    /\ UNCHANGED poolState
    /\ UNCHANGED normConfig
    /\ UNCHANGED atCancel
    /\ UNCHANGED fetchVars

\* part_006: case <-ctx.Done(): return, and the deferred close(resultChan)
StreamCancelled ==
    /\ prog = "stream" /\ impl = "typed"
    /\ spc = "run" /\ mpc = "returned"
    /\ sent < Len(ret.Transactions)
    /\ parentDone
    /\ spc' = "done"
    /\ closes' = closes + 1
    /\ UNCHANGED <<streamChan, sent, received, parentDone>>
    /\ UNCHANGED poolState
    /\ UNCHANGED normConfig
    /\ UNCHANGED atCancel
    /\ UNCHANGED fetchVars

\* part_006: the loop is over, the goroutine returns and the deferred
\* close(resultChan) runs
StreamEnd ==
    /\ prog = "stream" /\ impl = "typed"
    /\ spc = "run" /\ mpc = "returned"
    /\ sent = Len(ret.Transactions)
    /\ spc' = "done"
    /\ closes' = closes + 1
    /\ UNCHANGED <<streamChan, sent, received, parentDone>>
    /\ UNCHANGED poolState
    /\ UNCHANGED normConfig
    /\ UNCHANGED atCancel
    /\ UNCHANGED fetchVars

\* parallel_normalizer.go: wg.Wait() returns, the goroutine returns and the
\* deferred close(resultChan) runs
StreamWait ==
    /\ prog = "stream" /\ impl = "legacy"
    /\ spc = "run" /\ mpc = "collect"
    /\ wg = 0
    /\ spc' = "done"
    /\ closes' = closes + 1
    /\ resultClosed' = TRUE
    /\ UNCHANGED <<streamChan, sent, received, parentDone>>
    /\ UNCHANGED <<resultChan, wg, allTransactions, mpc, ret, filled,
                   workQueue, wqClosed, fillerExited, wpc, witem, mutex, stats,
                   ppc, statsChan, statsClosed, aggregateStats, rcNil, scNil,
                   taken>>
    /\ UNCHANGED normConfig
    /\ UNCHANGED atCancel
    /\ UNCHANGED fetchVars

\* the consumer: for tx := range the returned channel
StreamRecv ==
    /\ prog = "stream"
    /\ OutChan # <<>>
    /\ received' = Append(received, Head(OutChan))
    /\ IF impl = "typed"
       THEN streamChan' = Tail(streamChan) /\ UNCHANGED resultChan
       ELSE resultChan' = Tail(resultChan) /\ UNCHANGED streamChan
    /\ UNCHANGED <<closes, spc, sent, parentDone>>
    /\ UNCHANGED <<resultClosed, wg, allTransactions, mpc, ret, filled,
                   workQueue, wqClosed, fillerExited, wpc, witem, mutex, stats,
                   ppc, statsChan, statsClosed, aggregateStats, rcNil, scNil,
                   taken>>
    /\ UNCHANGED normConfig
    /\ UNCHANGED atCancel
    /\ UNCHANGED fetchVars

\* the steps of a worker pool that both generations have
PoolSteps ==
    \/ NormStart
    \/ \E c \in TxTypes : Fill(c)
    \/ \E c \in TxTypes : FillCancelled(c)
    \/ \E c \in TxTypes, w \in Workers : Dequeue(c, w)
    \/ \E c \in TxTypes, w \in Workers : WorkerEnd(c, w)
    \/ \E c \in TxTypes, w \in Workers : WorkerCancelled(c, w)
    \/ \E c \in TxTypes, w \in Workers : Normalize(c, w)
    \/ \E c \in TxTypes, w \in Workers : SendTx(c, w)
    \/ \E c \in TxTypes, w \in Workers : SendCancelled(c, w)
    \/ \E c \in TxTypes : PoolWait(c)

\* part_006: the statistics, the collector of NormalizeTransactionsParallel
\* and the loop that streams its result
TypedSteps ==
    \/ \E c \in TxTypes, w \in Workers : LockCount(c, w)
    \/ \E c \in TxTypes : SendStats(c)
    \/ \E c \in TxTypes : SkipStats(c)
    \/ CloseChans
    \/ RecvTx
    \/ RecvStats
    \/ ResultChanEnd
    \/ StatsChanEnd
    \/ StreamSend
    \/ StreamCancelled
    \/ StreamEnd

\* the goroutines behind the returned channel
StreamProducer ==
    \/ PoolSteps
    \/ TypedSteps
    \/ StreamWait

NextStream ==
    \/ StreamCancel
    \/ StreamProducer
    \/ StreamRecv

NextStreamTyped ==
    \/ StreamCancel
    \/ PoolSteps
    \/ TypedSteps
    \/ StreamRecv

SpecStream == (InitStream("typed") \/ InitStream("legacy")) /\ [][NextStream]_vars
SpecStreamTyped == InitStream("typed") /\ [][NextStreamTyped]_vars

\* the Go scheduler runs every goroutine that can take a step, and the
\* consumer keeps receiving
SpecStreamFair ==
    /\ SpecStream
    /\ WF_vars(StreamProducer)
    /\ WF_vars(StreamRecv)

(***************************************************************************)
(* EtherscanClient.executeRequest (etherscan_client.go)                    *)
(*   impl = "seq":  one caller, one call after the other                   *)
(*   impl = "conc": several goroutines calling the same client             *)
(* Times are in milliseconds.  A request goes out at the time lastReq is   *)
(* set to (lines 73-86 take no time on the clock's scale), and the caller  *)
(* has its answer at once, which is the earliest it can call again.        *)
(***************************************************************************)
\* RateLimitDelay = 200 * time.Millisecond
RateLimitDelay == 200

\* the clock advances in steps of half a delay
Tick == RateLimitDelay \div 2

\* bounds of the explored runs
MaxTime == 600
MaxCallers == 2
MaxCalls == 2

Callers == 1..(IF impl = "seq" THEN 1 ELSE MaxCallers)

\* how httpClient.Do and the checks after it end: a result, an error of
\* Do, or an API error in the response
RequestOutcomes == {"ok", "network", "api"}

\* what the rest of the model does not have
clientRest == <<prog, impl, fetchVars, resultChan, resultClosed, wg,
                allTransactions, mpc, ret, poolOwn, writerVars>>

\* NewEtherscanClient: lastReq = time.Now()
InitClient(i) ==
    /\ prog = "client"
    /\ impl = i
    /\ maxConcurrent = 0
    /\ parentDone = FALSE
    /\ sem = 0
    /\ semClosed = FALSE
    /\ fpc = [t \in TxTypes |-> "idle"]
    /\ abandoned = 0
    /\ fetchStats = [t \in TxTypes |-> 0]
    /\ collected = [t \in TxTypes |-> 0]
    /\ provided = [t \in TxTypes |-> Nil]
    /\ timeout = 0
    /\ resultChan = <<>>
    /\ resultClosed = FALSE
    /\ wg = 0
    /\ allTransactions = <<>>
    /\ errors = {}
    /\ mpc = "start"
    /\ ret = Nil
    /\ PoolsIdle
    /\ StreamIdle
    /\ WriterIdle
    /\ rawTx = Nil
    /\ now = 0
    /\ lastReq = 0
    /\ cpc = [c \in Callers |-> "idle"]
    /\ cwake = [c \in Callers |-> 0]
    /\ sentAt = <<>>
    /\ cres = [c \in Callers |-> "none"]
    /\ attempts = [c \in Callers |-> 0]
    /\ calls = [c \in Callers |-> 0]

\* time passes
ClientTick ==
    /\ prog = "client" /\ now < MaxTime
    /\ now' = now + Tick
    /\ UNCHANGED <<lastReq, cpc, cwake, sentAt, cres, attempts, calls, parentDone>>
    /\ UNCHANGED clientRest

\* the callers' ctx is cancelled
ClientCancel ==
    /\ prog = "client" /\ ~parentDone
    /\ parentDone' = TRUE
    /\ UNCHANGED clientVars
    /\ UNCHANGED clientRest

\* a fetch operation calls executeRequest: timeSinceLastReq :=
\* time.Since(c.lastReq) and the comparison with RateLimitDelay
ReadClock(c) ==
    /\ prog = "client" /\ cpc[c] = "idle"
    /\ calls[c] < MaxCalls
    /\ calls' = [calls EXCEPT ![c] = @ + 1]
    /\ attempts' = [attempts EXCEPT ![c] = 0]
    /\ cres' = [cres EXCEPT ![c] = "none"]
    /\ LET timeSinceLastReq == now - lastReq IN
          IF timeSinceLastReq < RateLimitDelay
          THEN /\ cpc' = [cpc EXCEPT ![c] = "wait"]
               /\ cwake' = [cwake EXCEPT ![c] = now + (RateLimitDelay - timeSinceLastReq)]
          ELSE /\ cpc' = [cpc EXCEPT ![c] = "send"]
               /\ UNCHANGED cwake
    /\ UNCHANGED <<now, lastReq, sentAt, parentDone>>
    /\ UNCHANGED clientRest

\* case <-time.After(RateLimitDelay - timeSinceLastReq)
TimerFires(c) ==
    /\ prog = "client" /\ cpc[c] = "wait"
    /\ now >= cwake[c]
    /\ cpc' = [cpc EXCEPT ![c] = "send"]
    /\ UNCHANGED <<now, lastReq, cwake, sentAt, cres, attempts, calls, parentDone>>
    /\ UNCHANGED clientRest

\* case <-ctx.Done(): return nil, ctx.Err()
WaitCancelled(c) ==
    /\ prog = "client" /\ cpc[c] = "wait"
    /\ parentDone
    /\ cpc' = [cpc EXCEPT ![c] = "idle"]
    /\ cres' = [cres EXCEPT ![c] = "ctx"]
    /\ UNCHANGED <<now, lastReq, cwake, sentAt, attempts, calls, parentDone>>
    /\ UNCHANGED clientRest

\* c.lastReq = time.Now(); httpClient.Do(req) and the checks of the
\* response; whatever the outcome, executeRequest returns.  A request made
\* with a cancelled ctx fails in Do without going out.
SendRequest(c) ==
    /\ prog = "client" /\ cpc[c] = "send"
    /\ lastReq' = now
    /\ IF parentDone
       THEN /\ cres' = [cres EXCEPT ![c] = "ctx"]
            /\ UNCHANGED <<sentAt, attempts>>
       ELSE /\ sentAt' = Append(sentAt, now)
            /\ attempts' = [attempts EXCEPT ![c] = @ + 1]
            /\ \E o \in RequestOutcomes : cres' = [cres EXCEPT ![c] = o]
    /\ cpc' = [cpc EXCEPT ![c] = "idle"]
    /\ UNCHANGED <<now, cwake, calls, parentDone>>
    /\ UNCHANGED clientRest

NextClient ==
    \/ ClientTick
    \/ ClientCancel
    \/ \E c \in Callers : ReadClock(c)
    \/ \E c \in Callers : TimerFires(c)
    \/ \E c \in Callers : WaitCancelled(c)
    \/ \E c \in Callers : SendRequest(c)

SpecClient == (InitClient("seq") \/ InitClient("conc")) /\ [][NextClient]_vars

(***************************************************************************)
(* StreamingCSVWriter.WriteStream (src/unnamed/part_001)                   *)
(* The underlying io.Writer accepts every write.                           *)
(***************************************************************************)
\* bounds of the explored runs
MaxBatch == 3
MaxRows == 3

\* the buffer of the input channel
TxChanCap == 1

\* the transactions a producer may send: distinct, in any order
WriterInputs ==
    UNION {{q \in [1..n -> 1..MaxRows] : \A i, j \in 1..n : q[i] = q[j] => i = j} :
              n \in 0..MaxRows}

\* the transaction with hash h
CsvTx(h) == [Hash |-> h, Type |-> ModelType(h % NumTypes),
             BlockNumber |-> h, Timestamp |-> h]

\* writeHeader's row, and the record writeBatch makes of a transaction
HeaderRow == <<"Transaction Hash", "Date & Time", "Transaction Type">>
Row(tx) == <<tx.Hash, tx.Timestamp, tx.Type>>

\* scw.writeBatch(batch): a row per transaction, in order, then Flush
WriteBatch(f, txs) == f \o [k \in DOMAIN txs |-> Row(txs[k])]

\* what the rest of the model does not have
writerRest == <<prog, impl, fetchVars, resultChan, resultClosed, wg,
                allTransactions, poolOwn, clientVars>>

\* NewStreamingCSVWriter, SetBatchSize, and a producer about to send
InitWriter ==
    /\ prog = "writer"
    /\ impl = "csv"
    /\ maxConcurrent = 0
    /\ parentDone = FALSE
    /\ sem = 0
    /\ semClosed = FALSE
    /\ fpc = [t \in TxTypes |-> "idle"]
    /\ abandoned = 0
    /\ fetchStats = [t \in TxTypes |-> 0]
    /\ collected = [t \in TxTypes |-> 0]
    /\ provided = [t \in TxTypes |-> Nil]
    /\ timeout = 0
    /\ resultChan = <<>>
    /\ resultClosed = FALSE
    /\ wg = 0
    /\ allTransactions = <<>>
    /\ errors = {}
    /\ mpc = "start"
    /\ ret = Nil
    /\ PoolsIdle
    /\ StreamIdle
    /\ ClientIdle
    /\ rawTx = Nil
    /\ batchSize \in 1..MaxBatch
    /\ pending \in {[k \in DOMAIN q |-> CsvTx(q[k])] : q \in WriterInputs}
    /\ txChan = <<>>
    /\ txClosed = FALSE
    /\ batch = <<>>
    /\ file = <<>>
    /\ got = <<>>

\* the caller cancels ctx
WriterCancel ==
    /\ prog = "writer" /\ mpc # "returned" /\ ~parentDone
    /\ parentDone' = TRUE
    /\ UNCHANGED <<mpc, ret>>
    /\ UNCHANGED writerVars
    /\ UNCHANGED writerRest

\* the producer: txChan <- tx
Produce ==
    /\ prog = "writer" /\ ~txClosed
    /\ pending # <<>>
    /\ Len(txChan) < TxChanCap
    /\ txChan' = Append(txChan, Head(pending))
    /\ pending' = Tail(pending)
    /\ UNCHANGED <<batchSize, txClosed, batch, file, got, mpc, ret, parentDone>>
    /\ UNCHANGED writerRest

\* the producer: close(txChan)
CloseInput ==
    /\ prog = "writer" /\ ~txClosed
    /\ pending = <<>>
    /\ txClosed' = TRUE
    /\ UNCHANGED <<batchSize, pending, txChan, batch, file, got, mpc, ret, parentDone>>
    /\ UNCHANGED writerRest

\* WriteStream up to its loop: the header, written once
WriteHeader ==
    /\ prog = "writer" /\ mpc = "start"
    /\ file' = Append(file, HeaderRow)
    /\ mpc' = "loop"
    /\ UNCHANGED <<batchSize, pending, txChan, txClosed, batch, got, ret, parentDone>>
    /\ UNCHANGED writerRest

\* case tx, ok := <-txChan with ok: append, and flush a full batch
Receive ==
    /\ prog = "writer" /\ mpc = "loop"
    /\ txChan # <<>>
    /\ got' = Append(got, Head(txChan))
    /\ txChan' = Tail(txChan)
    /\ LET b == Append(batch, Head(txChan)) IN
          IF Len(b) >= batchSize
          THEN /\ file' = WriteBatch(file, b)
               /\ batch' = <<>>
          ELSE /\ batch' = b
               /\ UNCHANGED file
    /\ UNCHANGED <<batchSize, pending, txClosed, mpc, ret, parentDone>>
    /\ UNCHANGED writerRest

\* fault injection: the ticker flush without batch = batch[:0]
TickerFlushNoReset ==
    /\ prog = "writer" /\ mpc = "loop"
    /\ batch # <<>>
    /\ file' = WriteBatch(file, batch)
    /\ batch' = batch
    /\ UNCHANGED <<batchSize, pending, txChan, txClosed, got, mpc, ret, parentDone>>
    /\ UNCHANGED writerRest

\* case <-ticker.C with a batch that is not empty
TickerFlush ==
    /\ prog = "writer" /\ mpc = "loop"
    /\ batch # <<>>
    /\ file' = WriteBatch(file, batch)
    /\ batch' = <<>>
    /\ UNCHANGED <<batchSize, pending, txChan, txClosed, got, mpc, ret, parentDone>>
    /\ UNCHANGED writerRest

\* case tx, ok := <-txChan with !ok: the rest of the batch, Flush, return nil
InputClosed ==
    /\ prog = "writer" /\ mpc = "loop"
    /\ txChan = <<>> /\ txClosed
    /\ file' = WriteBatch(file, batch)
    /\ batch' = <<>>
    /\ ret' = [err |-> NoErr]
    /\ mpc' = "returned"
    /\ UNCHANGED <<batchSize, pending, txChan, txClosed, got, parentDone>>
    /\ UNCHANGED writerRest

\* case <-ctx.Done(): the rest of the batch, return ctx.Err()
CtxDone ==
    /\ prog = "writer" /\ mpc = "loop"
    /\ parentDone
    /\ file' = WriteBatch(file, batch)
    /\ ret' = [err |-> "ctx"]
    /\ mpc' = "returned"
    /\ UNCHANGED <<batchSize, pending, txChan, txClosed, batch, got, parentDone>>
    /\ UNCHANGED writerRest

NextWriter ==
    \/ WriterCancel
    \/ Produce
    \/ CloseInput
    \/ WriteHeader
    \/ Receive
    \/ TickerFlush
    \/ InputClosed
    \/ CtxDone

SpecWriter == InitWriter /\ [][NextWriter]_vars

(***************************************************************************)
(* Both fetchers together                                                  *)
(***************************************************************************)
NextFetch == NextPF \/ NextTF

SpecFetch ==
    /\ \/ InitFetcher("stats")
       \/ InitFetcher("legacy")
       \/ InitTF("seq")
       \/ InitTF("conc")
    /\ [][NextFetch]_vars

(***************************************************************************)
(* The merge/sort stage on its own: sort.Sort(models.TransactionList(s))   *)
(***************************************************************************)
MaxSortLen == 3
MaxKey == 2

\* the unsorted sequences handed to the sort; Hash is the position in the
\* unsorted sequence
SortInputs ==
    UNION {{[i \in 1..n |-> [Hash |-> i, Type |-> ModelType(TxTypeNormal),
                             BlockNumber |-> k[i][1], Timestamp |-> k[i][2]]] :
               k \in [1..n -> (1..MaxKey) \X (1..MaxKey)]} : n \in 0..MaxSortLen}

(***************************************************************************)
(* The fetch pipeline of part_003, the sequential fetch of fetcher.go, the  *)
(* normalize pipeline of part_006 and the stream of parallel_normalizer.go *)
(* side by side                                                            *)
(***************************************************************************)
(***************************************************************************)
(* The sequential counterparts the parallel implementations are compared   *)
(* with                                                                    *)
(***************************************************************************)
\* one loop of the sequential normalization: for _, tx := range xTxs
\* { if norm, err := normalizer.NormalizeX(tx); err == nil
\*       { result = append(result, norm) } }
RECURSIVE SequentialLoop(_, _)
SequentialLoop(c, raws) ==
    IF raws = <<>> THEN <<>>
    ELSE (IF NormalizeErr(Head(raws)) THEN <<>> ELSE <<NormalizeTx(c, Head(raws))>>)
         \o SequentialLoop(c, Tail(raws))

\* the five loops one after the other
SequentialNormalization ==
    SequentialLoop(TxTypeNormal, items[TxTypeNormal])
    \o SequentialLoop(TxTypeInternal, items[TxTypeInternal])
    \o SequentialLoop(TxTypeToken, items[TxTypeToken])
    \o SequentialLoop(TxTypeNFT, items[TxTypeNFT])
    \o SequentialLoop(TxTypeERC1155, items[TxTypeERC1155])

\* what the sequential FetchAllTransactions has appended before its sort
\* when the provider answers provided[t] for category t
SequentialFetch ==
    FetchNormalized(TxTypeNormal, provided[TxTypeNormal]).Transactions
    \o FetchNormalized(TxTypeInternal, provided[TxTypeInternal]).Transactions
    \o FetchNormalized(TxTypeToken, provided[TxTypeToken]).Transactions
    \o FetchNormalized(TxTypeNFT, provided[TxTypeNFT]).Transactions
    \o FetchNormalized(TxTypeERC1155, provided[TxTypeERC1155]).Transactions

(***************************************************************************)
(* Configuration of a ParallelNormalizer (part_006) and of a               *)
(* ParallelFetcher (part_003) through their setters                        *)
(***************************************************************************)
\* workerCount: 4, bufferSize: 1000 in NewParallelNormalizer
DefaultWorkerCount == 4
DefaultBufferSize == 1000
\* the upper limits the setters accept
WorkerCountLimit == 16
BufferSizeLimit == 10000
MaxConcurrentLimit == 10

\* the arguments tried with a setter whose upper limit is max
SetterArgs(max) == {-1, 0, 1, 2, max, max + 1}
\* the durations tried with SetTimeout, in milliseconds
TimeoutArgs == {-1, 0, 1, 2 * DefaultTimeout}

\* NewParallelNormalizer and NewParallelFetcher have run; nothing else has
InitConfig ==
    /\ prog = "config"
    /\ impl = "stats"
    /\ maxConcurrent = 3
    /\ timeout = DefaultTimeout
    /\ workerCount = DefaultWorkerCount
    /\ bufferSize = DefaultBufferSize
    /\ parentDone = FALSE
    /\ sem = 0
    /\ semClosed = FALSE
    /\ fpc = [t \in TxTypes |-> "idle"]
    /\ abandoned = 0
    /\ fetchStats = [t \in TxTypes |-> 0]
    /\ collected = [t \in TxTypes |-> 0]
    /\ provided = [t \in TxTypes |-> Nil]
    /\ resultChan = <<>>
    /\ resultClosed = FALSE
    /\ wg = 0
    /\ allTransactions = <<>>
    /\ errors = {}
    /\ mpc = "config"
    /\ ret = Nil
    /\ items = [c \in TxTypes |-> <<>>]
    /\ filled = [c \in TxTypes |-> 0]
    /\ workQueue = [c \in TxTypes |-> <<>>]
    /\ wqClosed = [c \in TxTypes |-> FALSE]
    /\ fillerExited = [c \in TxTypes |-> FALSE]
    /\ wpc = <<>>
    /\ witem = <<>>
    /\ mutex = [c \in TxTypes |-> 0]
    /\ stats = [c \in TxTypes |-> ZeroStats]
    /\ ppc = [c \in TxTypes |-> "none"]
    /\ statsChan = <<>>
    /\ statsClosed = FALSE
    /\ aggregateStats = ZeroStats
    /\ rcNil = FALSE
    /\ scNil = FALSE
    /\ taken = [c \in TxTypes |-> <<>>]
    /\ rawTx = Nil
    /\ StreamIdle
    /\ ClientIdle
    /\ WriterIdle

\* what a configuration call leaves alone besides the four parameters
configRest == <<prog, impl, parentDone, sem, semClosed, fpc, abandoned, fetchStats,
                collected, provided, resultChan, resultClosed, wg,
                allTransactions, errors, mpc, ret, items, filled, workQueue,
                wqClosed, fillerExited, wpc, witem, mutex, stats, ppc, statsChan,
                statsClosed, aggregateStats, rcNil, scNil, taken, rawTx,
                streamVars, atCancel, clientVars, writerVars>>

\* fault injection: SetWorkerCount without its range check
SetWorkerCountAny(count) ==
    /\ prog = "config"
    /\ workerCount' = count
    /\ UNCHANGED <<bufferSize, maxConcurrent, timeout>>
    /\ UNCHANGED configRest

\* if count > 0 && count <= 16 { pn.workerCount = count }
SetWorkerCount(count) ==
    /\ prog = "config"
    /\ workerCount' = IF count > 0 /\ count <= WorkerCountLimit THEN count ELSE workerCount
    /\ UNCHANGED <<bufferSize, maxConcurrent, timeout>>
    /\ UNCHANGED configRest

\* if size > 0 && size <= 10000 { pn.bufferSize = size }
SetBufferSize(size) ==
    /\ prog = "config"
    /\ bufferSize' = IF size > 0 /\ size <= BufferSizeLimit THEN size ELSE bufferSize
    /\ UNCHANGED <<workerCount, maxConcurrent, timeout>>
    /\ UNCHANGED configRest

\* if timeout > 0 { pf.timeout = timeout }
SetTimeout(d) ==
    /\ prog = "config"
    /\ timeout' = IF d > 0 THEN d ELSE timeout
    /\ UNCHANGED <<workerCount, bufferSize, maxConcurrent>>
    /\ UNCHANGED configRest

NextConfig ==
    \/ \E count \in SetterArgs(WorkerCountLimit) : SetWorkerCount(count)
    \/ \E size \in SetterArgs(BufferSizeLimit) : SetBufferSize(size)
    \/ \E max \in SetterArgs(MaxConcurrentLimit) : SetMaxConcurrent(max)
    \/ \E d \in TimeoutArgs : SetTimeout(d)

SpecConfig == InitConfig /\ [][NextConfig]_vars

NextPipelines ==
    \/ NextPF
    \/ SeqFetch
    \/ SeqReturn
    \/ NextNorm
    \/ StreamCancel
    \/ StreamWait
    \/ StreamRecv

SpecPipelines ==
    /\ \/ InitFetcher("stats")
       \/ InitTF("seq")
       \/ InitNorm("typed")
       \/ InitStream("legacy")
    /\ [][NextPipelines]_vars

InitSort ==
    /\ prog = "sort"
    /\ impl = "lib"
    /\ maxConcurrent = 0
    /\ parentDone = FALSE
    /\ sem = 0
    /\ semClosed = FALSE
    /\ fpc = [t \in TxTypes |-> "idle"]
    /\ abandoned = 0
    /\ fetchStats = [t \in TxTypes |-> 0]
    /\ collected = [t \in TxTypes |-> 0]
    /\ provided = [t \in TxTypes |-> Nil]
    /\ timeout = 0
    /\ resultChan = <<>>
    /\ resultClosed = FALSE
    /\ wg = 0
    /\ allTransactions \in SortInputs
    /\ errors = {}
    /\ mpc = "start"
    /\ ret = Nil
    /\ NormIdle
    /\ rawTx = Nil

\* if len(allTransactions) > 0 { sort.Sort(models.TransactionList(allTransactions)) }
SortList ==
    /\ prog = "sort" /\ mpc = "start"
    /\ \E sorted \in SortOutcomes(allTransactions) : ret' = [txs |-> sorted, err |-> NoErr]
    /\ mpc' = "returned"
    /\ UNCHANGED <<prog, impl, resultChan, resultClosed, wg, allTransactions, fpc>>
    /\ UNCHANGED pfOnly
    /\ UNCHANGED normVars

\* sort.Sort once more, on the slice the first call left
SortAgain ==
    /\ prog = "sort" /\ mpc = "returned"
    /\ allTransactions' = ret.txs
    /\ \E sorted \in SortOutcomes(ret.txs) : ret' = [txs |-> sorted, err |-> NoErr]
    /\ mpc' = "resorted"
    /\ UNCHANGED <<prog, impl, resultChan, resultClosed, wg, fpc>>
    /\ UNCHANGED pfOnly
    /\ UNCHANGED normVars

NextSort == SortList \/ SortAgain

SpecSort == InitSort /\ [][NextSort]_vars

(***************************************************************************)
(* Arbitrary-precision arithmetic as math/big provides it.  A natural      *)
(* number is the sequence of its base-10000 limbs, least significant       *)
(* first, without leading zero limbs; zero is the empty sequence.          *)
(***************************************************************************)
Base == 10000

\* a without its leading zero limbs
Trim(a) ==
    LET used == {i \in 1..Len(a) : a[i] # 0}
    IN IF used = {} THEN <<>>
       ELSE SubSeq(a, 1, CHOOSE i \in used : \A j \in used : j <= i)

Limb(a, i) == IF i <= Len(a) THEN a[i] ELSE 0

\* big.Int.Add; the carry into limb i comes from the nearest lower limb that
\* overflows, through limbs that are full
BigAdd(a, b) ==
    LET n == (IF Len(a) >= Len(b) THEN Len(a) ELSE Len(b)) + 1
        Sum(i) == Limb(a, i) + Limb(b, i)
        Carry(i) == IF \E j \in 1..(i - 1) :
                          Sum(j) >= Base /\ \A l \in (j + 1)..(i - 1) : Sum(l) = Base - 1
                    THEN 1 ELSE 0
    IN Trim([i \in 1..n |-> (Sum(i) + Carry(i)) % Base])

\* big.Int.Cmp: -1, 0 or 1
BigCmp(a, b) ==
    IF Len(a) # Len(b) THEN (IF Len(a) < Len(b) THEN -1 ELSE 1)
    ELSE LET diff == {i \in 1..Len(a) : a[i] # b[i]}
         IN IF diff = {} THEN 0
            ELSE LET top == CHOOSE i \in diff : \A j \in diff : j <= i
                 IN IF a[top] < b[top] THEN -1 ELSE 1

\* big.Int.Sub for a >= b; the borrow from limb i is asked by the nearest
\* lower limb that falls short, through limbs that are level
BigSub(a, b) ==
    LET Borrow(i) == IF \E j \in 1..(i - 1) :
                           a[j] < Limb(b, j) /\ \A l \in (j + 1)..(i - 1) : a[l] = Limb(b, l)
                     THEN 1 ELSE 0
    IN Trim([i \in 1..Len(a) |-> (a[i] - Limb(b, i) - Borrow(i) + Base) % Base])

\* a times d, for 0 <= d <= Base: the low halves of the limb products plus
\* their high halves one limb up
MulSmall(a, d) ==
    BigAdd(Trim([i \in 1..Len(a) |-> (a[i] * d) % Base]),
           Trim([i \in 1..(Len(a) + 1) |-> IF i = 1 THEN 0 ELSE (a[i - 1] * d) \div Base]))

RECURSIVE MulFrom(_, _, _)
MulFrom(a, b, j) ==
    IF j > Len(b) THEN <<>>
    ELSE LET rest == MulFrom(a, b, j + 1)
         IN BigAdd(MulSmall(a, b[j]), IF rest = <<>> THEN <<>> ELSE <<0>> \o rest)

\* big.Int.Mul
BigMul(a, b) == IF a = <<>> THEN <<>> ELSE MulFrom(a, b, 1)

\* a * d^k for d <= 10
RECURSIVE MulPow(_, _, _)
MulPow(a, d, k) ==
    IF k = 0 \/ a = <<>> THEN a
    ELSE IF k = 1 THEN MulSmall(a, d)
    ELSE LET h == MulPow(a, d, k \div 2)
         IN IF h = <<>> THEN <<>> ELSE MulPow(h, d, k - (k \div 2))

BigOne == <<1>>

\* the natural number written by the decimal digits ds (most significant
\* first, as integers 0..9)
FromDigits(ds) ==
    LET Dig(i) == IF i >= 1 THEN ds[i] ELSE 0
        n == Len(ds)
    IN Trim([i \in 1..((n + 3) \div 4) |->
                Dig(n - 4 * (i - 1)) + 10 * Dig(n - 4 * (i - 1) - 1)
                  + 100 * Dig(n - 4 * (i - 1) - 2) + 1000 * Dig(n - 4 * (i - 1) - 3)])

\* the decimal digits of one limb, most significant first, four of them
LimbDigits(x) == <<x \div 1000, (x \div 100) % 10, (x \div 10) % 10, x % 10>>

\* index of the first nonzero digit of d, Len(d) + 1 when there is none
FirstNonZero(d) ==
    IF \A i \in 1..Len(d) : d[i] = 0 THEN Len(d) + 1
    ELSE CHOOSE i \in 1..Len(d) : d[i] # 0 /\ \A j \in 1..(i - 1) : d[j] = 0

DropZeros(d) == SubSeq(d, FirstNonZero(d), Len(d))

\* big.Int.String as a sequence of decimal digits, most significant first
\* (empty for zero)
ToDigits(a) ==
    DropZeros([i \in 1..(4 * Len(a)) |->
                  LimbDigits(a[Len(a) - ((i - 1) \div 4)])[((i - 1) % 4) + 1]])

(***************************************************************************)
(* float64 as big.Rat.Float64 produces it and strconv.FormatFloat prints   *)
(* it.  A positive float64 is [q, e] standing for q * 2^e with             *)
(* 2^52 <= q < 2^53; zero is [q |-> <<>>, e |-> 0].  The inputs of the     *)
(* model stay inside the normal range of float64.                          *)
(***************************************************************************)
MantBits == 53

Odd(a) == a # <<>> /\ a[1] % 2 = 1

TwoPow(k) == MulPow(BigOne, 2, k)

\* a/b brought into [1, 2) by doubling b (e counts up) or a (e counts down),
\* in strides of 2^13 first
RECURSIVE NormUp(_, _, _)
NormUp(a, b, e) ==
    IF e >= 0 /\ BigCmp(MulSmall(b, 8192), a) <= 0
        THEN NormUp(a, MulSmall(b, 8192), e + 13)
    ELSE IF BigCmp(MulSmall(b, 2), a) <= 0 THEN NormUp(a, MulSmall(b, 2), e + 1)
    ELSE [a |-> a, b |-> b, e |-> e]

RECURSIVE NormDown(_, _, _)
NormDown(a, b, e) ==
    IF e <= 0 /\ BigCmp(MulSmall(a, 8192), b) < 0
        THEN NormDown(MulSmall(a, 8192), b, e - 13)
    ELSE IF BigCmp(a, b) < 0 THEN NormDown(MulSmall(a, 2), b, e - 1)
    ELSE [a |-> a, b |-> b, e |-> e]

\* one step of the long division of r by b: the next bit of the quotient q
DivStep(s, b) ==
    IF BigCmp(s.r, b) >= 0
    THEN [r |-> MulSmall(BigSub(s.r, b), 2), q |-> BigAdd(MulSmall(s.q, 2), BigOne)]
    ELSE [r |-> MulSmall(s.r, 2), q |-> MulSmall(s.q, 2)]

\* n steps of it; once the remainder is zero the remaining bits are zero
RECURSIVE MantissaBits(_, _, _)
MantissaBits(s, b, n) ==
    IF n = 0 THEN s
    ELSE IF n = 1 THEN DivStep(s, b)
    ELSE LET h == MantissaBits(s, b, n \div 2)
         IN IF h.r = <<>> THEN [r |-> <<>>, q |-> MulPow(h.q, 2, n - (n \div 2))]
            ELSE MantissaBits(h, b, n - (n \div 2))

\* big.Rat.Float64 of a/b (b > 0): the nearest float64, ties to even
Float64(a, b) ==
    IF a = <<>> THEN [q |-> <<>>, e |-> 0]
    ELSE LET n  == IF BigCmp(a, b) >= 0 THEN NormUp(a, b, 0) ELSE NormDown(a, b, 0)
             m  == MantissaBits([r |-> n.a, q |-> <<>>], n.b, MantBits)
             c  == BigCmp(m.r, n.b)
             up == c > 0 \/ (c = 0 /\ Odd(m.q))
             q1 == IF up THEN BigAdd(m.q, BigOne) ELSE m.q
         IN IF q1 = TwoPow(MantBits)
            THEN [q |-> TwoPow(MantBits - 1), e |-> n.e - (MantBits - 1) + 1]
            ELSE [q |-> q1, e |-> n.e - (MantBits - 1)]

Zeros(n) == [i \in 1..n |-> 0]

\* the digits of a, padded with leading zeros to n digits
Pad(a, n) == LET d == ToDigits(a) IN Zeros(n - Len(d)) \o d

\* comparison of two digit sequences of one length: -1, 0 or 1
LexCmp(x, y) ==
    LET diff == {i \in 1..Len(x) : x[i] # y[i]}
    IN IF diff = {} THEN 0
       ELSE LET first == CHOOSE i \in diff : \A j \in diff : i <= j
            IN IF x[first] < y[first] THEN -1 ELSE 1

Truncate(d, p) == [i \in 1..Len(d) |-> IF i <= p THEN d[i] ELSE 0]

\* d cut after its first p digits and the number they form increased by one
\* (d[1] = 0 leaves room for the carry)
RoundUpAt(d, p) ==
    LET j == CHOOSE i \in 1..p : d[i] # 9 /\ \A l \in (i + 1)..p : d[l] = 9
    IN [i \in 1..Len(d) |-> IF i < j THEN d[i] ELSE IF i = j THEN d[i] + 1 ELSE 0]

\* decimal.Round's choice between the two neighbours: nearest, ties to even
ShouldRoundUp(d, p) ==
    IF p >= Len(d) THEN FALSE
    ELSE IF d[p + 1] # 5 THEN d[p + 1] > 5
    ELSE IF \E i \in (p + 2)..Len(d) : d[i] # 0 THEN TRUE
    ELSE d[p] % 2 = 1

\* strconv's roundShortest: the fewest digits that still identify the
\* float64 among its neighbours
RECURSIVE RoundShortest(_, _, _, _, _)
RoundShortest(d, lo, hi, inclusive, p) ==
    LET down   == Truncate(d, p)
        up     == RoundUpAt(d, p)
        cl     == LexCmp(lo, down)
        cu     == LexCmp(up, hi)
        okdown == cl < 0 \/ (inclusive /\ cl = 0)
        okup   == cu < 0 \/ (inclusive /\ cu = 0)
    IN IF p >= Len(d) THEN d
       ELSE IF okdown /\ okup THEN (IF ShouldRoundUp(d, p) THEN up ELSE down)
       ELSE IF okdown THEN down
       ELSE IF okup THEN up
       ELSE RoundShortest(d, lo, hi, inclusive, p + 1)

DigitChars == <<"0", "1", "2", "3", "4", "5", "6", "7", "8", "9">>

Chars(d) == [i \in 1..Len(d) |-> DigitChars[d[i] + 1]]

DropTrailingZeros(d) ==
    LET used == {i \in 1..Len(d) : d[i] # 0}
    IN IF used = {} THEN <<>>
       ELSE SubSeq(d, 1, CHOOSE i \in used : \A j \in used : j <= i)

\* the digits d read with the last k of them after the decimal point,
\* printed without superfluous zeros
FormatFixed(d, k) ==
    LET full == IF Len(d) > k THEN d ELSE Zeros(k + 1 - Len(d)) \o d
        int  == DropZeros(SubSeq(full, 1, Len(full) - k))
        frac == DropTrailingZeros(SubSeq(full, Len(full) - k + 1, Len(full)))
    IN Chars(IF int = <<>> THEN <<0>> ELSE int)
         \o (IF frac = <<>> THEN <<>> ELSE <<".">> \o Chars(frac))

\* strconv.FormatFloat(f, 'f', -1, 64)
FormatFloat(f) ==
    IF f.q = <<>> THEN <<"0">>
    ELSE LET k    == IF f.e <= 2 THEN 2 - f.e ELSE 0
             mant == MulPow(MulPow(f.q, 2, f.e + k), 5, k)
             qulp == MulPow(TwoPow(f.e - 2 + k), 5, k)
             half == MulSmall(qulp, 2)
             low  == BigSub(mant, IF f.q = TwoPow(MantBits - 1) THEN qulp ELSE half)
             high == BigAdd(mant, half)
             n    == Len(ToDigits(high)) + 1
             d    == Pad(mant, n)
         IN FormatFixed(RoundShortest(d, Pad(low, n), Pad(high, n), ~Odd(f.q),
                                      FirstNonZero(d)), k)

(***************************************************************************)
(* EtherscanNormalizer (pkg/providers/normalizer.go).  A Go string is the  *)
(* sequence of its characters.  The model keeps the fields of the raw      *)
(* records that the conversions read (Value, GasUsed, GasPrice,            *)
(* TokenDecimal, TokenID, TokenValue) and the fields of models.Transaction *)
(* computed from them (Type, Amount, GasFeeETH, TokenID, Decimals).        *)
(* Signs are left out of the inputs: every character is a decimal digit    *)
(* or a letter.                                                            *)
(***************************************************************************)
IsDigit(c) == \E v \in 1..10 : DigitChars[v] = c

DigitValue(c) == (CHOOSE v \in 1..10 : DigitChars[v] = c) - 1

\* the longest run of decimal digits s starts with
DigitPrefix(s) ==
    LET bad == {i \in 1..Len(s) : ~IsDigit(s[i])}
    IN IF bad = {} THEN s
       ELSE SubSeq(s, 1, (CHOOSE i \in bad : \A j \in bad : i <= j) - 1)

\* big.Int.SetString(s, 10).  ok is the result the callers drop.  When it is
\* false Go documents the receiver's value as undefined; the scanner has by
\* then stored the digits it read before the offending character, and that
\* is the value the receiver is left with.
SetString(s) ==
    LET pre == DigitPrefix(s)
    IN [val |-> FromDigits([i \in 1..Len(pre) |-> DigitValue(pre[i])]),
        ok  |-> s # <<>> /\ pre = s]

\* big.Int.String
IntString(a) == IF a = <<>> THEN <<"0">> ELSE Chars(ToDigits(a))

\* strconv.Atoi for numbers below Base: 0 and an error for anything else
Atoi(s) ==
    LET p == SetString(s)
    IN IF p.ok THEN [val |-> IF p.val = <<>> THEN 0 ELSE p.val[1], ok |-> TRUE]
       ELSE [val |-> 0, ok |-> FALSE]

WeiDecimals == 18

\* big.NewInt(1e18)
WeiPerETH == MulPow(BigOne, 10, WeiDecimals)

weiToETH(weiStr) ==
    IF weiStr = <<>> \/ weiStr = <<"0">> THEN <<"0">>
    ELSE FormatFloat(Float64(SetString(weiStr).val, WeiPerETH))

calculateGasFeeETH(gasUsed, gasPrice) ==
    FormatFloat(Float64(BigMul(SetString(gasUsed).val, SetString(gasPrice).val),
                        WeiPerETH))

MaxInt64Pow10 == 18

\* int64(math.Pow(10, float64(decimals))), as sign and magnitude.  10^18 is
\* the last power an int64 holds; beyond it Go leaves the result of the
\* conversion to the implementation: amd64 yields -2^63, arm64 saturates at
\* 2^63 - 1 (impl names the target of the build).
Int64Pow10(decimals) ==
    IF decimals <= MaxInt64Pow10 THEN [neg |-> FALSE, mag |-> MulPow(BigOne, 10, decimals)]
    ELSE IF impl = "amd64" THEN [neg |-> TRUE, mag |-> TwoPow(63)]
    ELSE [neg |-> FALSE, mag |-> BigSub(TwoPow(63), BigOne)]

adjustForDecimals(valueStr, decimals) ==
    IF valueStr = <<>> \/ valueStr = <<"0">> THEN <<"0">>
    ELSE IF decimals = 0 THEN IntString(SetString(valueStr).val)
    ELSE LET val     == SetString(valueStr).val
             divisor == Int64Pow10(decimals)
             f       == FormatFloat(Float64(val, divisor.mag))
         IN IF divisor.neg /\ val # <<>> THEN <<"-">> \o f ELSE f

\* the raw records: EtherscanNormalTx, EtherscanInternalTx, EtherscanTokenTx
EtherscanNormalTx(h, value, gasUsed, gasPrice) ==
    [kind |-> TxTypeNormal, Hash |-> h, Value |-> value,
     GasUsed |-> gasUsed, GasPrice |-> gasPrice]

EtherscanInternalTx(h, value, gasUsed) ==
    [kind |-> TxTypeInternal, Hash |-> h, Value |-> value, GasUsed |-> gasUsed]

EtherscanTokenTx(k, h, value, tokenDecimal, tokenID, tokenValue, gasUsed, gasPrice) ==
    [kind |-> k, Hash |-> h, Value |-> value, TokenDecimal |-> tokenDecimal,
     TokenID |-> tokenID, TokenValue |-> tokenValue,
     GasUsed |-> gasUsed, GasPrice |-> gasPrice]

\* &models.Transaction{...}; a field the literal leaves out has its zero value
Transaction(h, type, amount, gasFee, tokenID, decimals) ==
    [Hash |-> h, Type |-> type, Amount |-> amount, GasFeeETH |-> gasFee,
     TokenID |-> tokenID, Decimals |-> decimals]

NormalizeNormalTx(tx) ==
    [tx  |-> Transaction(tx.Hash, ModelType(TxTypeNormal), weiToETH(tx.Value),
                         calculateGasFeeETH(tx.GasUsed, tx.GasPrice), <<>>, 0),
     err |-> NoErr]

\* fault injection: the internal call is charged like a normal transfer
NormalizeInternalTxWithFee(tx) ==
    [tx  |-> Transaction(tx.Hash, ModelType(TxTypeInternal), weiToETH(tx.Value),
                         calculateGasFeeETH(tx.GasUsed, <<"1">>), <<>>, 0),
     err |-> NoErr]

NormalizeInternalTx(tx) ==
    [tx  |-> Transaction(tx.Hash, ModelType(TxTypeInternal), weiToETH(tx.Value),
                         <<>>, <<>>, 0),
     err |-> NoErr]

NormalizeERC20Tx(tx) ==
    LET decimals == Atoi(tx.TokenDecimal).val
    IN [tx  |-> Transaction(tx.Hash, ModelType(TxTypeToken),
                            adjustForDecimals(tx.Value, decimals),
                            calculateGasFeeETH(tx.GasUsed, tx.GasPrice), <<>>, decimals),
        err |-> NoErr]

\* fault injection: the NFT's amount is read from the record
NormalizeERC721TxFromValue(tx) ==
    [tx  |-> Transaction(tx.Hash, ModelType(TxTypeNFT), tx.Value,
                         calculateGasFeeETH(tx.GasUsed, tx.GasPrice), tx.TokenID, 0),
     err |-> NoErr]

NormalizeERC721Tx(tx) ==
    [tx  |-> Transaction(tx.Hash, ModelType(TxTypeNFT), <<"1">>,
                         calculateGasFeeETH(tx.GasUsed, tx.GasPrice), tx.TokenID, 0),
     err |-> NoErr]

\* fault injection: value is preferred to tokenValue
NormalizeERC1155TxValueFirst(tx) ==
    LET amount == IF tx.Value = <<>> THEN tx.TokenValue ELSE tx.Value
    IN [tx  |-> Transaction(tx.Hash, ModelType(TxTypeERC1155), amount,
                            calculateGasFeeETH(tx.GasUsed, tx.GasPrice), tx.TokenID, 0),
        err |-> NoErr]

NormalizeERC1155Tx(tx) ==
    LET amount == IF tx.TokenValue = <<>> THEN tx.Value ELSE tx.TokenValue
    IN [tx  |-> Transaction(tx.Hash, ModelType(TxTypeERC1155), amount,
                            calculateGasFeeETH(tx.GasUsed, tx.GasPrice), tx.TokenID, 0),
        err |-> NoErr]

\* the explored field values
WeiValues ==
    {<<>>, <<"0">>, <<"1">>,
     <<"2", "5", "0", "0", "0", "0", "0", "0", "0", "0", "0", "0", "0", "0", "0", "0", "0", "0">>,
     <<"1", "0", "0", "0", "0", "0", "0", "0", "0", "0", "0", "0", "0", "0", "0", "0", "0", "0", "0">>,
     <<"1", "0", "0", "0", "0", "0", "0", "0", "0", "0", "0", "0", "0", "0", "0", "0", "0", "0", "1">>,
     <<"1", "8", "4", "4", "6", "7", "4", "4", "0", "7", "3", "7", "0", "9", "5", "5", "1", "6", "1", "7">>,
     <<"1", "2", "3", "4", "5", "6", "7", "8", "9", "0", "1", "2", "3", "4", "5", "6", "7", "8", "9", "0", "1", "2", "3", "4", "5", "6", "7", "8", "9", "0">>,
     <<"a", "b", "c">>, <<"1", "2", "x">>}

GasUsedValues ==
    {<<>>, <<"2", "1", "0", "0", "0">>, <<"1", "2", "3", "4", "5", "6", "7", "8", "9">>, <<"x">>}

GasPriceValues ==
    {<<"5", "0", "0", "0", "0", "0", "0", "0", "0", "0", "0">>, <<"1", "2", "3", "4", "5", "6", "7", "8", "9", "1">>,
     <<"1", "8", "4", "4", "6", "7", "4", "4", "0", "7", "3", "7", "0", "9", "5", "5", "1", "6", "1", "6">>, <<"x">>}

TokenAmounts ==
    {<<"0">>, <<"1", "0", "0", "0", "0", "0", "0", "0", "0", "0">>, <<"1", "2", "3", "4", "5", "6", "7">>,
     <<"1", "0", "0", "0", "0", "0", "0", "0", "0", "0", "0", "0", "0", "0", "0", "0", "0", "0", "1">>,
     <<"a", "b", "c">>}

TokenDecimals == {<<>>, <<"0">>, <<"6">>, <<"1", "8">>, <<"1", "9">>, <<"x">>}

TokenIDs == {<<>>, <<"7", "7", "7">>}

Quantities == {<<>>, <<"3">>, <<"5">>}

NormalizerInputs ==
    {EtherscanNormalTx(1, v, u, p) :
        v \in WeiValues, u \in GasUsedValues, p \in GasPriceValues}
    \cup {EtherscanInternalTx(2, v, u) : v \in WeiValues, u \in GasUsedValues}
    \cup {EtherscanTokenTx(TxTypeToken, 3, v, d, <<>>, <<>>, <<"2", "1", "0", "0", "0">>, <<"5", "0", "0", "0", "0", "0", "0", "0", "0", "0", "0">>) :
             v \in TokenAmounts, d \in TokenDecimals}
    \cup {EtherscanTokenTx(TxTypeNFT, 4, v, <<>>, id, <<>>, <<"2", "1", "0", "0", "0">>, <<"5", "0", "0", "0", "0", "0", "0", "0", "0", "0", "0">>) :
             v \in Quantities, id \in TokenIDs}
    \cup {EtherscanTokenTx(TxTypeERC1155, 5, v, <<>>, id, q, <<"2", "1", "0", "0", "0">>, <<"5", "0", "0", "0", "0", "0", "0", "0", "0", "0", "0">>) :
             v \in Quantities, id \in TokenIDs, q \in Quantities}

InitNormalizer ==
    /\ prog = "normalizer"
    /\ impl \in {"amd64", "arm64"}
    /\ maxConcurrent = 0
    /\ parentDone = FALSE
    /\ sem = 0
    /\ semClosed = FALSE
    /\ fpc = [t \in TxTypes |-> "idle"]
    /\ abandoned = 0
    /\ fetchStats = [t \in TxTypes |-> 0]
    /\ collected = [t \in TxTypes |-> 0]
    /\ provided = [t \in TxTypes |-> Nil]
    /\ timeout = 0
    /\ resultChan = <<>>
    /\ resultClosed = FALSE
    /\ wg = 0
    /\ allTransactions = <<>>
    /\ errors = {}
    /\ mpc = "start"
    /\ ret = Nil
    /\ NormIdle
    /\ rawTx \in NormalizerInputs

\* the call of the Normalize*Tx method that matches the record's category
Returns(result) ==
    /\ prog = "normalizer" /\ mpc = "start"
    /\ ret' = result
    /\ mpc' = "returned"
    /\ UNCHANGED <<prog, impl, resultChan, resultClosed, wg, allTransactions, fpc>>
    /\ UNCHANGED pfOnly
    /\ UNCHANGED normVars

CallNormalizeNormalTx == rawTx.kind = TxTypeNormal /\ Returns(NormalizeNormalTx(rawTx))

CallNormalizeInternalTx == rawTx.kind = TxTypeInternal /\ Returns(NormalizeInternalTx(rawTx))

CallNormalizeERC20Tx == rawTx.kind = TxTypeToken /\ Returns(NormalizeERC20Tx(rawTx))

CallNormalizeERC721Tx == rawTx.kind = TxTypeNFT /\ Returns(NormalizeERC721Tx(rawTx))

CallNormalizeERC1155Tx == rawTx.kind = TxTypeERC1155 /\ Returns(NormalizeERC1155Tx(rawTx))

NextNormalizer ==
    \/ CallNormalizeNormalTx
    \/ CallNormalizeInternalTx
    \/ CallNormalizeERC20Tx
    \/ CallNormalizeERC721Tx
    \/ CallNormalizeERC1155Tx

SpecNormalizer == InitNormalizer /\ [][NextNormalizer]_vars

(***************************************************************************)
(* internal/normalize (src/unnamed/part_011): Normalize(raw RawData)       *)
(* A raw record carries its Hash, its TimeStamp string and, for the ERC-20 *)
(* category, its TokenDecimal string; a NormalizedTx its Hash, Type and    *)
(* Timestamp (the seconds time.Unix was given).  The amount and fee        *)
(* columns play no part in the error handling or the order.                *)
(***************************************************************************)
MaxRawNormal == 2
MaxRawToken == 1

\* the TimeStamp and TokenDecimal strings tried
TimeStampStrings == {<<>>, <<"1">>, <<"2">>, <<"x">>}
TokenDecimalStrings == {<<"6">>, <<"x">>}

\* how many records a RawData holds at most in category c
MaxRaw(c) ==
    CASE c = TxTypeNormal -> MaxRawNormal
      [] c = TxTypeToken -> MaxRawToken
      [] c = TxTypeERC1155 -> MaxRawToken
      [] OTHER -> 0

\* the records a category may hold
RawRecords(c) ==
    {[Hash |-> 0, TimeStamp |-> ts, TokenDecimal |-> d] :
        ts \in TimeStampStrings,
        d \in IF c = TxTypeToken THEN TokenDecimalStrings ELSE {<<>>}}

\* the record lists a category may hold
RawLists(c) == UNION {[1..n -> RawRecords(c)] : n \in 0..MaxRaw(c)}

\* the RawData values Normalize is given; the Hash of a record tells its
\* category and position
RawDataInputs ==
    {[c \in TxTypes |->
         [i \in DOMAIN f[c + 1] |-> [f[c + 1][i] EXCEPT !.Hash = 10 * c + i]]] :
        f \in RawLists(TxTypeNormal) \X RawLists(TxTypeInternal)
                \X RawLists(TxTypeToken) \X RawLists(TxTypeNFT)
                \X RawLists(TxTypeERC1155)}

\* strconv.ParseInt(timestampStr, 10, 64), then time.Unix(timestamp, 0)
parseTimestamp(timestampStr) ==
    LET p == Atoi(timestampStr)
    IN IF p.ok THEN [time |-> p.val, err |-> NoErr] ELSE [time |-> 0, err |-> "syntax"]

\* normalizeNormalTx ... normalizeERC1155Tx: the timestamp is parsed first;
\* normalizeERC20Tx then parses TokenDecimal with strconv.Atoi
normalizeRecord(c, tx) ==
    LET timestamp == parseTimestamp(tx.TimeStamp) IN
    IF timestamp.err # NoErr
    THEN [tx |-> Nil, err |-> "invalid timestamp"]
    ELSE IF c = TxTypeToken /\ ~Atoi(tx.TokenDecimal).ok
    THEN [tx |-> Nil, err |-> "invalid token decimals"]
    ELSE [tx |-> [Hash |-> tx.Hash, Type |-> ModelType(c), Timestamp |-> timestamp.time],
          err |-> NoErr]

\* fault injection: the loops skip a record that fails instead of returning
RECURSIVE NormalizeLoopsSkipping(_, _, _, _)
NormalizeLoopsSkipping(raw, c, i, result) ==
    IF c > TxTypeERC1155 THEN [txs |-> result, err |-> NoErr]
    ELSE IF i > Len(raw[c]) THEN NormalizeLoopsSkipping(raw, c + 1, 1, result)
    ELSE LET n == normalizeRecord(c, raw[c][i])
         IN NormalizeLoopsSkipping(raw, c, i + 1,
                IF n.err # NoErr THEN result ELSE Append(result, n.tx))

\* the five loops of Normalize, from record i of category c on: the first
\* failure ends the call with nil and the error
RECURSIVE NormalizeLoops(_, _, _, _)
NormalizeLoops(raw, c, i, result) ==
    IF c > TxTypeERC1155 THEN [txs |-> result, err |-> NoErr]
    ELSE IF i > Len(raw[c]) THEN NormalizeLoops(raw, c + 1, 1, result)
    ELSE LET n == normalizeRecord(c, raw[c][i])
         IN IF n.err # NoErr
            THEN [txs |-> <<>>, err |-> n.err]
            ELSE NormalizeLoops(raw, c, i + 1, Append(result, n.tx))

\* result[i].Timestamp.Before(result[j].Timestamp)
Before(a, b) == a.Timestamp < b.Timestamp

\* sort.Slice(result, less): not stable, so every arrangement of s ordered
\* by Before is an outcome
RECURSIVE SliceOutcomes(_)
SliceOutcomes(s) ==
    IF s = <<>> THEN {<<>>}
    ELSE LET x == s[Len(s)]
             rest == SliceOutcomes(SubSeq(s, 1, Len(s) - 1))
         IN UNION {{InsertAt(r, x, k) :
                       k \in {j \in 0..Len(r) :
                                /\ (j = 0 \/ ~Before(x, r[j]))
                                /\ (j = Len(r) \/ ~Before(r[j + 1], x))}} :
                   r \in rest}

\* a caller is about to hand a RawData to Normalize
InitNormalize ==
    /\ prog = "normalize"
    /\ impl = "internal"
    /\ items \in RawDataInputs
    /\ mpc = "start"
    /\ ret = Nil
    /\ maxConcurrent = 0
    /\ timeout = 0
    /\ workerCount = 0
    /\ bufferSize = 0
    /\ parentDone = FALSE
    /\ sem = 0
    /\ semClosed = FALSE
    /\ fpc = [t \in TxTypes |-> "idle"]
    /\ abandoned = 0
    /\ fetchStats = [t \in TxTypes |-> 0]
    /\ collected = [t \in TxTypes |-> 0]
    /\ provided = [t \in TxTypes |-> Nil]
    /\ resultChan = <<>>
    /\ resultClosed = FALSE
    /\ wg = 0
    /\ allTransactions = <<>>
    /\ errors = {}
    /\ filled = [c \in TxTypes |-> 0]
    /\ workQueue = [c \in TxTypes |-> <<>>]
    /\ wqClosed = [c \in TxTypes |-> FALSE]
    /\ fillerExited = [c \in TxTypes |-> FALSE]
    /\ wpc = <<>>
    /\ witem = <<>>
    /\ mutex = [c \in TxTypes |-> 0]
    /\ stats = [c \in TxTypes |-> ZeroStats]
    /\ ppc = [c \in TxTypes |-> "none"]
    /\ statsChan = <<>>
    /\ statsClosed = FALSE
    /\ aggregateStats = ZeroStats
    /\ rcNil = FALSE
    /\ scNil = FALSE
    /\ taken = [c \in TxTypes |-> <<>>]
    /\ rawTx = Nil
    /\ StreamIdle
    /\ ClientIdle
    /\ WriterIdle

\* Normalize(raw): the loops, then the sort of a result without failure
NormalizeRawData ==
    /\ prog = "normalize" /\ mpc = "start"
    /\ LET r == NormalizeLoops(items, TxTypeNormal, 1, <<>>) IN
          IF r.err # NoErr
          THEN ret' = r
          ELSE \E sorted \in SliceOutcomes(r.txs) : ret' = [txs |-> sorted, err |-> NoErr]
    /\ mpc' = "returned"
    /\ UNCHANGED <<prog, impl, parentDone, resultChan, resultClosed, wg,
                   allTransactions, workerCount, bufferSize, items, filled,
                   workQueue, wqClosed, fillerExited, wpc, witem, mutex, stats,
                   ppc, statsChan, statsClosed, aggregateStats, rcNil, scNil,
                   taken, rawTx, streamVars, atCancel, fetchVars, clientVars,
                   writerVars>>

NextNormalize == NormalizeRawData

SpecNormalize == InitNormalize /\ [][NextNormalize]_vars

(***************************************************************************)
(* Properties                                                              *)
(***************************************************************************)
Range(s) == {s[i] : i \in DOMAIN s}
NoDuplicates(s) == \A i, j \in DOMAIN s : s[i] = s[j] => i = j
SameKey(a, b) == a.BlockNumber = b.BlockNumber /\ a.Timestamp = b.Timestamp
Balanced(st) == st.SuccessCount + st.ErrorCount = st.TotalProcessed
\* how many transactions of s carry Hash h
Occurrences(s, h) == Cardinality({k \in DOMAIN s : s[k].Hash = h})

\* C1: once FetchAllTransactionsParallel or FetchAllTransactions has returned,
\* no adjacent pair (a, b) of the returned sequence has b in a lower block
\* than a, or in the same block with an earlier timestamp.
C1_SortedOutput ==
    (prog \in {"pf", "tf"} /\ mpc = "returned") =>
        \A i \in 1..(Len(ret.txs) - 1) :
            LET a == ret.txs[i]
                b == ret.txs[i + 1]
            IN /\ ~(b.BlockNumber < a.BlockNumber)
               /\ ~(b.BlockNumber = a.BlockNumber /\ b.Timestamp < a.Timestamp)

\* C1 witness: the parallel fetcher returned all five categories' transactions
\* in an order other than the arrival order.
C1_Witness ==
    /\ prog = "pf" /\ mpc = "returned"
    /\ Len(ret.txs) = NumTypes
    /\ ret.txs # allTransactions

\* C2: SuccessCount + ErrorCount = TotalProcessed in every pool's stats, in
\* every stats value sent to the collector, in the aggregate, and in the stats
\* of every result of the ParallelFetcher helpers.
C2_StatsBalanced ==
    /\ \A c \in TxTypes : Balanced(stats[c])
    /\ \A i \in DOMAIN statsChan : Balanced(statsChan[i])
    /\ Balanced(aggregateStats)
    /\ prog = "pf" =>
          \A i \in DOMAIN resultChan : Balanced(resultChan[i].NormalizationStats)

\* C3: at every moment the provider calls started and not yet returned
\* (those executeFetch waits for and those it has given up on) number at most
\* maxConcurrent.
C3_InFlightBound ==
    prog = "pf" =>
        Cardinality({t \in TxTypes : fpc[t] = "run"}) + abandoned <= maxConcurrent

\* C4: a cancelled NormalizeTransactionsParallel in which no goroutine can
\* take a step has returned, and its fillers, workers and pools have exited.
C4_CancelledRunReturns ==
    (prog = "norm" /\ parentDone /\ ~ENABLED NextNorm) =>
        /\ mpc = "returned"
        /\ \A c \in Pools :
              /\ fillerExited[c]
              /\ ppc[c] = "done"
              /\ \A w \in Workers : wpc[c][w] = "exited"

\* C5: when between one and four categories failed, the call returns a
\* non-nil error together with every transaction of the categories that
\* succeeded.
C5_PartialFailure ==
    (prog = "pf" /\ mpc = "returned"
       /\ Cardinality(errors) > 0 /\ Cardinality(errors) < NumTypes) =>
        /\ ret.err # NoErr
        /\ Range(allTransactions) \subseteq Range(ret.txs)

\* C6: when all five categories failed, FetchAllTransactionsParallel returns
\* a non-nil error and no transactions.
C6_TotalFailure ==
    (prog = "pf" /\ mpc = "returned"
       /\ \A t \in TxTypes : \E e \in errors : e.TxType = t) =>
        /\ ret.err # NoErr
        /\ ret.txs = <<>>

\* C6 witness: the provider failed for each of the five categories and the
\* call returned.
C6_Witness ==
    /\ prog = "pf" /\ mpc = "returned"
    /\ \A t \in TxTypes : [TxType |-> t, Err |-> "provider"] \in errors

\* C7: a category whose outcome is decided while its provider call has not
\* returned gets a failure with a timeout reason; a successful outcome is
\* appended to the collected transactions; and a return that reports a
\* timeout still carries every collected transaction.
C7_TimeoutIsolated ==
    [][prog = "pf" =>
        /\ \A t \in TxTypes :
              (fpc[t] = "run" /\ fpc'[t] = "done" /\ abandoned' = abandoned + 1) =>
                  /\ resultChan'[Len(resultChan')].TxType = t
                  /\ resultChan'[Len(resultChan')].Err = "timeout"
        /\ (resultChan # <<>> /\ resultChan' = Tail(resultChan)
              /\ Head(resultChan).Err = NoErr) =>
                  allTransactions' = allTransactions \o Head(resultChan).Txs
        /\ (mpc = "collect" /\ mpc' = "returned"
              /\ \E e \in errors : e.Err = "timeout"
              /\ Cardinality(errors) < NumTypes) =>
                  Range(allTransactions) \subseteq Range(ret'.txs)]_vars

\* C7 witness: the normal-transaction call timed out and is still running
\* when the call returns the transactions of other categories.
C7_Witness ==
    /\ prog = "pf" /\ mpc = "returned"
    /\ [TxType |-> TxTypeNormal, Err |-> "timeout"] \in errors
    /\ abandoned > 0
    /\ Len(ret.txs) >= 2

\* C8: two transactions with equal block number and equal timestamp stand in
\* the output in the order they had in the sequence handed to the sort.
C8_StableSort ==
    (prog = "sort" /\ mpc = "returned") =>
        \A i, j \in DOMAIN ret.txs :
            (i < j /\ SameKey(ret.txs[i], ret.txs[j])) =>
                ret.txs[i].Hash < ret.txs[j].Hash

\* C9: the returned sequence does not depend on the schedule: it is the one
\* of the run in which the results arrive in category order, so transactions
\* of different categories with the same block number and timestamp stand in
\* category order.
C9_Deterministic ==
    (prog = "pf" /\ mpc = "returned") =>
        \A i, j \in DOMAIN ret.txs :
            (i < j /\ SameKey(ret.txs[i], ret.txs[j])) =>
                ret.txs[i].Hash < ret.txs[j].Hash

\* C10: no record is dequeued twice; no record has more than one transaction
\* in the result; a record whose normalization failed has none, and is
\* counted in ErrorCount exactly once when its worker has processed it.
C10_AtMostOnce ==
    prog = "norm" =>
        \A c \in TxTypes :
            /\ NoDuplicates(taken[c])
            /\ NoDuplicates(stats[c].Errors)
            /\ stats[c].ErrorCount = Len(stats[c].Errors)
            /\ \A i \in DOMAIN items[c] :
                  LET raw == items[c][i] IN
                  /\ Occurrences(resultChan \o allTransactions, raw.Hash) <= 1
                  /\ mpc = "returned" => Occurrences(ret.Transactions, raw.Hash) <= 1
                  /\ NormalizeErr(raw) =>
                        Occurrences(resultChan \o allTransactions, raw.Hash) = 0
                  /\ ~NormalizeErr(raw) => raw.Hash \notin Range(stats[c].Errors)
                  /\ (/\ NormalizeErr(raw)
                      /\ ~parentDone
                      /\ raw.Hash \in Range(taken[c])
                      /\ \A w \in Workers : witem[c][w] # raw) =>
                        raw.Hash \in Range(stats[c].Errors)

\* C10 witness: two workers processed two records of one category, one of
\* them failing, and the uncancelled call returned.
C10_Witness ==
    /\ prog = "norm" /\ mpc = "returned" /\ ~parentDone
    /\ workerCount = 2
    /\ Len(items[TxTypeNormal]) = 2
    /\ aggregateStats.ErrorCount = 1
    /\ Len(ret.Transactions) >= 1

\* C11: when NormalizeTransactionsParallel returns without cancellation, the
\* returned transactions are exactly the transactions the normalizer produced
\* for the input records: each produced transaction once, and nothing else.
C11_NoLoss ==
    (prog = "norm" /\ mpc = "returned" /\ ~parentDone) =>
        /\ \A c \in TxTypes : \A i \in DOMAIN items[c] :
              Occurrences(ret.Transactions, items[c][i].Hash) =
                  IF NormalizeTx(c, items[c][i]) # Nil THEN 1 ELSE 0
        /\ \A k \in DOMAIN ret.Transactions :
              \E c \in TxTypes : \E i \in DOMAIN items[c] :
                  ret.Transactions[k] = NormalizeTx(c, items[c][i])

\* C11 witness: an uncancelled run returned three transactions through a
\* result buffer of size one.
C11_Witness ==
    /\ prog = "norm" /\ mpc = "returned" /\ ~parentDone
    /\ bufferSize = 1
    /\ Len(ret.Transactions) = 3

Returned(k) == prog = "normalizer" /\ mpc = "returned" /\ rawTx.kind = k

\* s is a string of decimal digits; s holds a character that is none
IsDecimalString(s) == s # <<>> /\ \A i \in 1..Len(s) : IsDigit(s[i])
NotDecimal(s) == \E i \in 1..Len(s) : ~IsDigit(s[i])

\* the exact decimal rendering of a / 10^k
ExactDecimal(a, k) == FormatFixed(ToDigits(a), k)

\* the call returned an error and no transaction
Rejected == ret.err # NoErr /\ ret.tx = Nil

\* C13: a normal-transfer record whose value, gasUsed or gasPrice holds a
\* character that is not a decimal digit is rejected: NormalizeNormalTx
\* returns an error and no transaction (so none with amount or fee "0").
C13_RejectsNonDecimal ==
    (/\ Returned(TxTypeNormal)
     /\ NotDecimal(rawTx.Value) \/ NotDecimal(rawTx.GasUsed) \/ NotDecimal(rawTx.GasPrice))
        => Rejected

\* C14: an ERC-20 record whose tokenDecimal is not an integer is rejected:
\* NormalizeERC20Tx returns an error and no transaction.
C14_RejectsBadDecimals ==
    (Returned(TxTypeToken) /\ ~IsDecimalString(rawTx.TokenDecimal)) => Rejected

\* C15: an ERC-721 record with an empty tokenID, and an ERC-1155 record with
\* an empty tokenID or with neither tokenValue nor value, is rejected with an
\* error and no transaction.
C15_RejectsIncompleteNFT ==
    (\/ Returned(TxTypeNFT) /\ rawTx.TokenID = <<>>
     \/ /\ Returned(TxTypeERC1155)
        /\ rawTx.TokenID = <<>> \/ (rawTx.TokenValue = <<>> /\ rawTx.Value = <<>>))
        => Rejected

\* C16: every ERC-721 record normalizes to a transaction whose amount is
\* the literal "1", whatever the record holds.
C16_NFTAmountOne ==
    Returned(TxTypeNFT) =>
        ret.err = NoErr /\ ret.tx # Nil /\ ret.tx.Amount = <<"1">>

\* C16 witness: an ERC-721 record whose value field is "5" has been
\* normalized to amount "1".
C16_Witness ==
    Returned(TxTypeNFT) /\ rawTx.Value = <<"5">> /\ rawTx.TokenID # <<>>
        /\ ret.tx.Amount = <<"1">>

\* C17: the amount of an ERC-1155 transaction is tokenValue whenever
\* tokenValue is non-empty, also when value is non-empty and different; it
\* is value only when tokenValue is empty.
C17_ERC1155Amount ==
    Returned(TxTypeERC1155) =>
        /\ ret.tx # Nil
        /\ rawTx.TokenValue # <<>> => ret.tx.Amount = rawTx.TokenValue
        /\ rawTx.TokenValue = <<>> => ret.tx.Amount = rawTx.Value
        /\ (ret.tx.Amount = rawTx.Value /\ rawTx.Value # rawTx.TokenValue)
              => rawTx.TokenValue = <<>>

\* C17 witness: tokenValue "3" and value "5" disagree and the amount is "3".
C17_Witness ==
    Returned(TxTypeERC1155) /\ rawTx.TokenValue = <<"3">> /\ rawTx.Value = <<"5">>
        /\ ret.tx.Amount = <<"3">>

C19_ExactAmount ==
    (Returned(TxTypeNormal) /\ IsDecimalString(rawTx.Value)) =>
        ret.tx.Amount = ExactDecimal(SetString(rawTx.Value).val, WeiDecimals)

\* C20: the gas fee is gasUsed * gasPrice / 10^18 exactly, the product taken
\* at full width.
C20_ExactGasFee ==
    (/\ Returned(TxTypeNormal)
     /\ IsDecimalString(rawTx.GasUsed) /\ IsDecimalString(rawTx.GasPrice)) =>
        ret.tx.GasFeeETH =
            ExactDecimal(BigMul(SetString(rawTx.GasUsed).val,
                                SetString(rawTx.GasPrice).val), WeiDecimals)

\* C21: the amount of an ERC-20 record with value v (decimal digits) and
\* declared decimal count d >= 0 is the exact decimal rendering of v / 10^d,
\* also for d >= 19.
C21_ExactTokenAmount ==
    (/\ Returned(TxTypeToken)
     /\ IsDecimalString(rawTx.Value) /\ IsDecimalString(rawTx.TokenDecimal)) =>
        ret.tx.Amount =
            ExactDecimal(SetString(rawTx.Value).val, Atoi(rawTx.TokenDecimal).val)

\* every transaction the normalizer produced for the input records has been
\* received by the stream's consumer once, and nothing else has
ReceivedAll ==
    /\ \A c \in TxTypes : \A i \in DOMAIN items[c] :
          Occurrences(received, items[c][i].Hash) =
              IF NormalizeTx(c, items[c][i]) # Nil THEN 1 ELSE 0
    /\ \A k \in DOMAIN received :
          \E c \in TxTypes : \E i \in DOMAIN items[c] :
              received[k] = NormalizeTx(c, items[c][i])

\* some goroutine is about to send on the channel the caller holds
SendPending ==
    IF impl = "typed"
    THEN spc = "run"
    ELSE \E c \in TxTypes : \E w \in Workers : wpc[c][w] = "send"

\* C22 (closed at most once): the channel returned by StreamNormalizeResults
\* is never closed a second time.
C22_ClosedOnce == prog = "stream" => closes <= 1

\* C22 (no send after close): once the returned channel is closed, no
\* goroutine is left that sends on it.
C22_NoSendAfterClose == (prog = "stream" /\ closes >= 1) => ~SendPending

\* C22 (exactly once): when the returned channel is closed and drained and
\* ctx was not cancelled, the consumer has received each successfully
\* normalized transaction exactly once.
C22_ExactlyOnce ==
    (prog = "stream" /\ closes >= 1 /\ OutChan = <<>> /\ ~parentDone) => ReceivedAll

\* C22 (eventually closed): a run in which no goroutine behind the channel
\* can take a step and the consumer has nothing left to receive, cancelled
\* or not, has closed the channel.
C22_EventuallyClosed ==
    (prog = "stream" /\ ~ENABLED (StreamProducer \/ StreamRecv)) => closes >= 1

\* C22: the channel returned by StreamNormalizeResults is a finite,
\* single-pass stream: in every run, with or without cancellation, it ends
\* up closed, it is closed once, nothing is sent on it after the close, and
\* without cancellation a consumer that keeps receiving gets each
\* successfully normalized transaction exactly once before the close.
C22_FiniteSinglePass ==
    /\ C22_ClosedOnce
    /\ C22_NoSendAfterClose
    /\ C22_ExactlyOnce
    /\ C22_EventuallyClosed

\* C22, as a temporal property of the fair runs: the channel is eventually
\* closed.
C22_Closes == (prog = "stream") => <>(closes >= 1)

\* the transactions the normalizer produces for the input records
Produced ==
    UNION {{items[c][i].Hash : i \in {j \in DOMAIN items[c] :
                                        NormalizeTx(c, items[c][j]) # Nil}} :
              c \in TxTypes}

\* every worker pool started for the stream has finished
PoolsFinished == mpc # "start" /\ \A c \in Pools : ppc[c] = "done"

\* C23: the stream delivers incrementally: in an uncancelled run that
\* produces more transactions than the returned channel buffers, the worker
\* pools cannot all have finished before the consumer has received a
\* transaction.
C23_Incremental ==
    (prog = "stream" /\ ~parentDone /\ PoolsFinished
       /\ Cardinality(Produced) > bufferSize) => received # <<>>

\* C23, the opposite for part_006: the consumer has received nothing until
\* every worker pool has finished.
C23_BatchThenStream ==
    (prog = "stream" /\ received # <<>>) => PoolsFinished

\* C23 witness: the consumer holds a transaction while a worker pool is
\* still running.
C23_Witness ==
    /\ prog = "stream" /\ received # <<>>
    /\ \E c \in Pools : ppc[c] = "wait"

\* C24: FetchAllTransactionsParallel eventually returns in every run, also
\* when ctx is cancelled mid-run and when provider calls never return: every
\* fetch goroutine gets past the semaphore and its send and is done, and the
\* collector has seen the result channel closed.
C24_Returns ==
    <>(/\ mpc = "returned"
       /\ \A t \in TxTypes : fpc[t] = "done"
       /\ sem = 0
       /\ resultClosed /\ resultChan = <<>>)

\* C24 witness: the call has returned with ctx cancelled and a provider call
\* that has still not returned, all goroutines having shared one slot.
C24_Witness ==
    /\ prog = "pf" /\ mpc = "returned"
    /\ parentDone
    /\ abandoned > 0
    /\ maxConcurrent = 1

\* C25: when the provider failed for some category, FetchAllTransactions
\* (sequential and goroutine variant) returns a non-nil error and no
\* transactions.
C25_AllOrNothing ==
    (prog = "tf" /\ mpc = "returned" /\ \E t \in TxTypes : fpc[t] = "failed") =>
        /\ ret.err # NoErr
        /\ ret.txs = <<>>

\* C25 witness: the goroutine variant returned after the token fetch failed,
\* having already collected transactions of another category.
C25_Witness ==
    /\ prog = "tf" /\ impl = "conc" /\ mpc = "returned"
    /\ fpc[TxTypeToken] = "failed"
    /\ \A t \in TxTypes \ {TxTypeToken} : fpc[t] = "done"
    /\ allTransactions # <<>>
    /\ ret.err # NoErr

\* the requests that went out are at least RateLimitDelay apart, pairwise
Spaced ==
    \A i \in DOMAIN sentAt : \A j \in DOMAIN sentAt :
        i < j => sentAt[j] - sentAt[i] >= RateLimitDelay

\* C26: any two HTTP requests issued through one EtherscanClient are sent at
\* least RateLimitDelay (200ms) apart, for one caller calling in sequence and
\* for several goroutines calling concurrently.
C26_RateLimited == prog = "client" => Spaced

\* C26, the sequential half: the requests of a single caller are at least
\* RateLimitDelay apart.
C26_SequentialSpaced == (prog = "client" /\ impl = "seq") => Spaced

\* C27: an executeRequest that reports a network error to its caller has
\* sent the request more than once.
C27_RetriesNetworkError ==
    prog = "client" =>
        \A c \in Callers :
            (cpc[c] = "idle" /\ cres[c] = "network") => attempts[c] >= 2

C29_IdempotentNoTies ==
    (/\ prog = "sort" /\ mpc = "resorted"
     /\ \A i, j \in DOMAIN allTransactions :
           SameKey(allTransactions[i], allTransactions[j]) => i = j) =>
        ret.txs = allTransactions

\* C30: once ctx is cancelled, no transaction is added to the result of
\* NormalizeTransactionsParallel: the result holds what it held at the
\* moment of cancellation, and what was in flight is discarded.
C30_NothingAfterCancel ==
    (prog = "norm" /\ parentDone) => Len(allTransactions) = atCancel

\* C30, the part about starting work: once ctx is cancelled, no worker
\* goes from its ctx check to normalizing a record.
C30_NoNewNormalization ==
    [][(prog = "norm" /\ parentDone) =>
          \A c \in TxTypes : \A w \in DOMAIN wpc[c] :
              wpc[c][w] = "got" => wpc'[c][w] \in {"got", "exited"}]_vars

\* C31: a category pool signals completion (its stats are sent, its
\* wg.Done() has run) only after every one of its workers has exited, and
\* resultChan and statsChan are closed only after every started pool has
\* signalled completion
C31_CompletionOrder ==
    prog = "norm" /\ impl = "typed" =>
        /\ \A c \in Pools :
               ppc[c] \in {"stats", "done"} =>
                   \A w \in Workers : wpc[c][w] = "exited"
        /\ Len(statsChan)
               <= Cardinality({c \in Pools : ppc[c] = "done"})
        /\ (resultClosed \/ statsClosed) =>
               /\ wg = 0
               /\ \A c \in Pools : ppc[c] = "done"

\* C31: two pools of two workers each have completed and both channels are
\* closed
C31_Witness ==
    /\ prog = "norm" /\ impl = "typed"
    /\ Cardinality(Pools) = 2 /\ workerCount = 2
    /\ resultClosed /\ statsClosed
    /\ \A c \in Pools : ppc[c] = "done"

\* C32: absent cancellation, when NormalizeTransactionsParallel returns,
\* Stats.TotalProcessed is the number of input records over the five
\* categories and Stats.SuccessCount is the number of transactions returned
C32_CountedOnce ==
    (prog = "norm" /\ impl = "typed" /\ mpc = "returned" /\ ~parentDone) =>
        /\ ret.Stats.TotalProcessed = totalWork
        /\ ret.Stats.SuccessCount = Len(ret.Transactions)
        /\ \A c \in TxTypes : \A i \in DOMAIN items[c] :
               Occurrences(ret.Transactions, items[c][i].Hash) =
                   IF ~NormalizeErr(items[c][i]) /\ NormalizeTx(c, items[c][i]) # Nil
                   THEN 1 ELSE 0

\* C32: an uncancelled run of two pools with two workers each has returned;
\* three records were given, one of them failed
C32_Witness ==
    /\ prog = "norm" /\ impl = "typed" /\ mpc = "returned" /\ ~parentDone
    /\ workerCount = 2 /\ Cardinality(Pools) = 2
    /\ totalWork = 3
    /\ ret.Stats.ErrorCount = 1
    /\ Len(ret.Transactions) = 2

\* C33: NormalizeTransactionsParallel starts a worker pool (its queue filler
\* and its workers) only for a category with at least one record; when the
\* five inputs are empty no pool is started, the call is never blocked (the
\* caller or the closer goroutine can always take a step until it returns)
\* and it returns an empty list with all-zero stats
C33_OnlyNonEmptyPools ==
    prog = "norm" =>
        /\ \A c \in TxTypes :
               Len(items[c]) = 0 =>
                   /\ ppc[c] = "none"
                   /\ \A w \in DOMAIN wpc[c] : wpc[c][w] = "none"
                   /\ ~fillerExited[c] /\ ~wqClosed[c]
        /\ totalWork = 0 =>
               /\ wg = 0
               /\ statsChan = <<>> /\ resultChan = <<>>
               /\ mpc = "returned" =>
                      ret.Transactions = <<>> /\ ret.Stats = ZeroStats
               /\ mpc # "returned" =>
                      ENABLED (NormStart \/ CloseChans \/ ResultChanEnd \/ StatsChanEnd)

\* C33: a call given five empty inputs has returned
C33_Witness ==
    /\ prog = "norm" /\ impl = "typed"
    /\ totalWork = 0
    /\ mpc = "returned"
    /\ ret.Transactions = <<>>

\* an outcome is a failure without transactions (Err set, Txs nil, Count 0)
\* or a success (Err nil)
FailureOrSuccess(r) ==
    \/ r.Err # NoErr /\ r.Txs = <<>> /\ r.Count = 0
    \/ r.Err = NoErr

\* C34: FetchAllTransactionsParallel collects exactly one outcome per
\* category, five by the time it returns, and every outcome sent to the
\* collector is a failure without transactions or a success without error
C34_OneOutcomePerCategory ==
    prog = "pf" =>
        /\ \A i \in DOMAIN resultChan : FailureOrSuccess(resultChan[i])
        /\ \A t \in TxTypes :
               /\ collected[t] <= 1
               /\ collected[t] = 1 => fpc[t] = "done"
               /\ Cardinality({e \in errors : e.TxType = t}) <= collected[t]
        /\ mpc = "returned" => \A t \in TxTypes : collected[t] = 1

\* C34: the call has returned after collecting failures (a provider error
\* and a timeout) as well as successes
C34_Witness ==
    /\ prog = "pf" /\ impl = "stats" /\ mpc = "returned"
    /\ \A t \in TxTypes : collected[t] = 1
    /\ \E e \in errors : e.Err = "timeout"
    /\ \E e \in errors : e.Err = "provider"
    /\ allTransactions # <<>>

\* C35: whenever the collector has recorded a timeout failure for a
\* category, the context that was handed to that category's provider call is
\* done
C35_ProviderCtxDone ==
    prog = "pf" =>
        \A t \in TxTypes :
            [TxType |-> t, Err |-> "timeout"] \in errors => ProviderCtxDone(t)

\* a goroutine that may still send on the result channel of the pools
Sender(c, w) == wpc[c][w] \notin {"none", "exited"}

\* C36: no channel is closed while a goroutine may still send on it or
\* release through it: the semaphore is closed only after every fetch
\* goroutine has given its slot back, the result channel of the fetch
\* pipeline only after the five fetch goroutines have sent, the result
\* channel of the normalize pipeline and of the stream only after every
\* worker has exited, and the stats channel only after every pool has sent
\* its stats
C36_NoUseAfterClose ==
    /\ prog = "pf" =>
          /\ semClosed => sem = 0 /\ \A t \in TxTypes : fpc[t] = "done"
          /\ resultClosed => wg = 0 /\ \A t \in TxTypes : fpc[t] = "done"
    /\ InPools =>
          /\ resultClosed => \A c \in TxTypes : \A w \in Workers : ~Sender(c, w)
          /\ statsClosed => \A c \in TxTypes : ppc[c] \in {"none", "done"}
          /\ closes >= 1 => resultClosed

\* C36: the fetch pipeline has returned and closed its semaphore, which had
\* a single slot that the five goroutines took in turn
C36_Witness ==
    /\ prog = "pf" /\ mpc = "returned"
    /\ maxConcurrent = 1
    /\ semClosed /\ resultClosed
    /\ \A t \in TxTypes : collected[t] = 1

\* C37: in the goroutine variant of TransactionFetcher.FetchAllTransactions,
\* also after the early return on a failed category, a fetch goroutine whose
\* fetch returns can always send its result and exit (the results channel
\* has room), the closer can close the channel as soon as the five have
\* finished, and it is not closed before that nor a second time
C37_GoroutinesDrain ==
    (prog = "tf" /\ impl = "conc" /\ mpc # "start") =>
        /\ \A t \in TxTypes : fpc[t] = "run" => ENABLED ConcFetched(t)
        /\ wg = Cardinality({t \in TxTypes : fpc[t] = "run"})
        /\ Len(resultChan) <= NumTypes - wg
        /\ resultClosed => wg = 0
        /\ (wg = 0 /\ ~resultClosed) => ENABLED ConcClose
        /\ resultClosed => ~ENABLED ConcClose

\* C37: the call returned early on a failed category while goroutines were
\* still fetching; they have all delivered since, and the channel is closed
\* with their four results left in it
C37_Witness ==
    /\ prog = "tf" /\ impl = "conc" /\ mpc = "returned"
    /\ ret.err # NoErr
    /\ resultClosed
    /\ Len(resultChan) = NumTypes - 1
    /\ \A t \in TxTypes : fpc[t] # "run"

\* the provider call of every category has returned without an error
ProviderSucceeded ==
    \A t \in TxTypes : provided[t] # Nil /\ ~provided[t].err

\* the transactions (non-nil entries) of s and of r are the same multiset
SameTransactions(s, r) ==
    \A x \in (Range(s) \cup Range(r)) \ {Nil} :
        Cardinality({k \in DOMAIN s : s[k] = x}) =
            Cardinality({k \in DOMAIN r : r[k] = x})

\* C38: with a provider that succeeds for every category and no
\* cancellation, NormalizeTransactionsParallel returns the same multiset of
\* transactions as the sequential loops over the five slices, and
\* FetchAllTransactionsParallel returns, like the sequential
\* FetchAllTransactions, no error and an arrangement sorted by (block
\* number, timestamp) of the transactions the sequential fetch collects
C38_ParallelEquivalent ==
    /\ (prog = "norm" /\ impl = "typed" /\ mpc = "returned" /\ ~parentDone) =>
           SameTransactions(ret.Transactions, SequentialNormalization)
    /\ (prog \in {"pf", "tf"} /\ mpc = "returned" /\ ProviderSucceeded) =>
           /\ ret.err = NoErr
           /\ ret.txs \in SortOutcomes(SequentialFetch)
           /\ SameTransactions(ret.txs, SequentialFetch)

\* C38: the parallel fetcher has returned the five transactions of a
\* provider that succeeded for every category, the goroutines having shared
\* one semaphore slot
C38_Witness ==
    /\ prog = "pf" /\ impl = "stats" /\ mpc = "returned"
    /\ ProviderSucceeded
    /\ maxConcurrent = 1
    /\ Len(ret.txs) = NumTypes

\* the four parameters are within their bounds
ConfigInBounds ==
    /\ workerCount \in 1..WorkerCountLimit
    /\ bufferSize \in 1..BufferSizeLimit
    /\ maxConcurrent \in 1..MaxConcurrentLimit
    /\ timeout > 0

\* the values the constructors set
ConfigDefaults ==
    /\ workerCount = DefaultWorkerCount
    /\ bufferSize = DefaultBufferSize
    /\ maxConcurrent = 3
    /\ timeout = DefaultTimeout

\* C39: the parameters start at their defaults (workerCount 4, bufferSize
\* 1000, maxConcurrent 3, timeout 30 s), stay within workerCount 1..16,
\* bufferSize 1..10000, maxConcurrent 1..10 and timeout > 0 after any
\* sequence of setter calls, and a setter called with an argument outside
\* its range changes nothing (one called with an argument inside it sets the
\* parameter to the argument)
C39_ConfigBounds ==
    /\ (prog = "config" => ConfigDefaults)
    /\ [](prog = "config" => ConfigInBounds)
    /\ [][/\ \A count \in SetterArgs(WorkerCountLimit) :
                SetWorkerCount(count) =>
                    workerCount' = (IF count \in 1..WorkerCountLimit
                                    THEN count ELSE workerCount)
          /\ \A size \in SetterArgs(BufferSizeLimit) :
                SetBufferSize(size) =>
                    bufferSize' = (IF size \in 1..BufferSizeLimit
                                   THEN size ELSE bufferSize)
          /\ \A max \in SetterArgs(MaxConcurrentLimit) :
                (prog = "config" /\ SetMaxConcurrent(max)) =>
                    maxConcurrent' = (IF max \in 1..MaxConcurrentLimit
                                      THEN max ELSE maxConcurrent)
          /\ \A d \in TimeoutArgs :
                SetTimeout(d) => timeout' = (IF d > 0 THEN d ELSE timeout)]_vars

\* C39: each parameter has been set to the upper end of its range
C39_Witness ==
    /\ prog = "config"
    /\ workerCount = WorkerCountLimit
    /\ bufferSize = BufferSizeLimit
    /\ maxConcurrent = MaxConcurrentLimit
    /\ timeout = 2 * DefaultTimeout

\* record tx of category c fails normalization: its timestamp is not a
\* decimal number or, for an ERC-20 record, its token decimals are not
RecordFails(c, tx) ==
    \/ ~IsDecimalString(tx.TimeStamp)
    \/ c = TxTypeToken /\ ~IsDecimalString(tx.TokenDecimal)

\* C40: normalize.Normalize returns an error and no transactions when some
\* record of some category fails normalization (invalid timestamp, invalid
\* token decimals); otherwise it returns no error and exactly one entry per
\* input record of the five categories, in ascending order of timestamp
C40_AllOrNothingSorted ==
    (prog = "normalize" /\ mpc = "returned") =>
        IF \E c \in TxTypes : \E i \in DOMAIN items[c] : RecordFails(c, items[c][i])
        THEN ret.err # NoErr /\ ret.txs = <<>>
        ELSE /\ ret.err = NoErr
             /\ Len(ret.txs) = totalWork
             /\ \A c \in TxTypes : \A i \in DOMAIN items[c] :
                    /\ Occurrences(ret.txs, items[c][i].Hash) = 1
                    /\ \E k \in DOMAIN ret.txs :
                          /\ ret.txs[k].Hash = items[c][i].Hash
                          /\ ret.txs[k].Type = ModelType(c)
             /\ \A j, k \in DOMAIN ret.txs :
                    j < k => ret.txs[j].Timestamp <= ret.txs[k].Timestamp

\* C40: four valid records of three categories were given with the later
\* timestamp first, and four entries came back
C40_Witness ==
    /\ prog = "normalize" /\ mpc = "returned"
    /\ ret.err = NoErr
    /\ Len(ret.txs) = 4
    /\ items[TxTypeNormal][1].TimeStamp = <<"2">>
    /\ items[TxTypeERC1155][1].TimeStamp = <<"1">>
    /\ ret.txs[1].Type = "ERC-1155"

====
